---- MODULE Spec2Model ----
(***************************************************************************)
(* Model of the Flipper theme manager (src/theme_manager.c): the storage   *)
(* volume (animation_packs/, dolphin/, dolphin_backup/), the catalog kept  *)
(* in ThemeManagerApp, the view dispatcher's current view, and every       *)
(* handler split at its storage calls.                                     *)
(*                                                                         *)
(* A directory is a record [ex, files]: ex says whether the directory      *)
(* exists, files is the set of <<path, data>> pairs below it, path being   *)
(* the sequence of names relative to the directory and data the file's     *)
(* text as a sequence of lexemes.  Empty subdirectories are not            *)
(* represented.  The storage service is external: storage_common_rename    *)
(* moves the whole tree or does nothing (the contract the source states at *)
(* lines 545-547) and fails when the destination exists; a failing         *)
(* recursive removal or merge may stop after any subset of the files.      *)
(***************************************************************************)
EXTENDS Integers, Sequences, FiniteSets, TLC

\* ------------------------------------------------------------------ bounds
\* number of storage calls that may fail in one run
MaxFailures == 1

\* ------------------------------------------------------- program constants
MAX_THEMES == 64
MENU_INDEX_RESTORE == MAX_THEMES + 1
MANIFEST_FILENAME == "manifest.txt"
META_FILENAME == "meta.txt"
ANIMS_DIRNAME == "Anims"
MANIFEST_HEADER == "Filetype: Flipper Animation Manifest"
NL == "\n"

ThemeTypePack == "Pack"
ThemeTypeAnimsPack == "AnimsPack"
ThemeTypeSingle == "Single"

\* ------------------------------------------------------------- directories
AbsentDir == [ex |-> FALSE, files |-> {}]
ExistingDir(fs) == [ex |-> TRUE, files |-> fs]

HasFile(fs, p) == \E e \in fs : e[1] = p
FileData(fs, p) == (CHOOSE e \in fs : e[1] = p)[2]

\* the part of a tree below the subdirectory d, paths made relative to d
SubTree(fs, d) == {<<Tail(e[1]), e[2]>> : e \in {x \in fs : Len(x[1]) > 1 /\ Head(x[1]) = d}}
\* mutant: the tree is placed at the top, not below d
UnderDir_Flat(d, fs) == fs
\* a tree placed below the subdirectory d
UnderDir(d, fs) == {<<(<<d>> \o e[1]), e[2]>> : e \in fs}

\* storage_common_merge: additive union, source files added or overwritten
MergeInto(dst, src) == {e \in dst : ~HasFile(src, e[1])} \cup src
\* a failing merge has copied some of the source files
MergePartial(dst, src) == {MergeInto(dst, S) : S \in SUBSET src}
\* a failing storage_simply_remove_recursive leaves the directory with some of its files
RemovePartial(d) == {ExistingDir(S) : S \in SUBSET d.files}

\* ---------------------------------------------------------------- manifest
\* the fixed stat fields that follow the name, one lexeme (it holds no "Name:")
MANIFEST_STATS == "Min butthurt: 0\nMax butthurt: 14\nMin level: 1\nMax level: 30\nWeight: 5"

\* mutant: the manifest names a fixed animation instead of the theme
ManifestText_FixedName(theme_name) ==
    << MANIFEST_HEADER, NL, "Version: 1", NL, NL,
       "Name:", " ", "anim", NL,
       MANIFEST_STATS, NL >>

\* the text apply_single writes, furi_string_alloc_printf at lines 612-622
ManifestText(theme_name) ==
    << MANIFEST_HEADER, NL, "Version: 1", NL, NL,
       "Name:", " ", theme_name, NL,
       MANIFEST_STATS, NL >>

\* mutant: every "Name:" is counted, wherever it stands in its line
CountNames_Anywhere(text) ==
    Cardinality({i \in 1..Len(text) : text[i] = "Name:"})

\* strstr(str, MANIFEST_HEADER) != NULL
HasHeader(text) == \E i \in 1..Len(text) : text[i] = MANIFEST_HEADER
\* occurrences of "Name:" at the start of the text or right after a newline
CountNames(text) ==
    Cardinality({i \in 1..Len(text) :
                   text[i] = "Name:" /\ (i = 1 \/ text[i-1] = NL)})
\* theme_manager_parse_manifest on a directory tree and a path
ParseManifest(fs, p) ==
    IF ~HasFile(fs, p) THEN [valid |-> FALSE, count |-> 0]
    ELSE IF ~HasHeader(FileData(fs, p)) THEN [valid |-> FALSE, count |-> 0]
    ELSE [valid |-> TRUE, count |-> CountNames(FileData(fs, p))]

\* ------------------------------------------------------------- the parsers
\* A text is a sequence of lexemes; the keywords "Name:", "Width:", "Height:" and
\* the header are lexemes of their own, everything the parsers look into
\* character by character (spaces, line ends, digits, signs, the characters of
\* a name) is a lexeme of one character.
MAX_NAME_LEN == 64
CR == "\r"
TAB == "\t"
\* isspace() on the characters the texts hold
Whitespace == {" ", NL, CR, TAB}
Digits == {"0", "1", "2", "3", "4", "5", "6", "7", "8", "9"}
DigitVal(c) ==
    CASE c = "0" -> 0 [] c = "1" -> 1 [] c = "2" -> 2 [] c = "3" -> 3 [] c = "4" -> 4
      [] c = "5" -> 5 [] c = "6" -> 6 [] c = "7" -> 7 [] c = "8" -> 8 [] c = "9" -> 9

\* the characters a sequence of lexemes stands for
RECURSIVE Join(_)
Join(s) == IF s = << >> THEN "" ELSE Head(s) \o Join(Tail(s))

\* strstr(text, tok): the place of the first occurrence, 0 for NULL
FirstIndex(text, tok) ==
    IF \E i \in 1..Len(text) : text[i] = tok
    THEN CHOOSE i \in 1..Len(text) :
             text[i] = tok /\ \A j \in 1..(i - 1) : text[j] # tok
    ELSE 0

\* the lexemes a text holds
Lexemes(s) == {s[i] : i \in 1..Len(s)}

\* how many lexemes at the start of s belong to the set cs
LeadingRun(s, cs) ==
    CHOOSE k \in 0..Len(s) :
        /\ \A j \in 1..k : s[j] \in cs
        /\ k = Len(s) \/ s[k + 1] \notin cs

\* the copy loop of get_first_anim_name (lines 263-269): the characters of val up
\* to a line end or the end of the text, out_name_size - 1 of them at most
CopyName(val, out_name_size) ==
    LET line == Join(SubSeq(val, 1, LeadingRun(val, Lexemes(val) \ {NL, CR})))
        i == IF Len(line) < out_name_size - 1 THEN Len(line) ELSE out_name_size - 1
    IN  [found |-> i > 0, name |-> SubSeq(line, 1, i)]

\* lines 259-261: the spaces after "Name:" are skipped
SkipSpaces(rest, out_name_size) ==
    CopyName(SubSeq(rest, LeadingRun(rest, {" "}) + 1, Len(rest)), out_name_size)

\* lines 253-258: the first "Name:" of the text
NameInText(text, out_name_size) ==
    IF FirstIndex(text, "Name:") = 0 THEN [found |-> FALSE, name |-> ""]
    ELSE SkipSpaces(SubSeq(text, FirstIndex(text, "Name:") + 1, Len(text)),
                    out_name_size)

\* theme_manager_get_first_anim_name (lines 229-273): the first "Name:" of the
\* text, the spaces after it skipped, then the characters up to a line end, the
\* end of the text or out_name_size - 1 of them
GetFirstAnimName(fs, p, out_name_size) ==
    IF ~HasFile(fs, p) THEN [found |-> FALSE, name |-> ""]
    ELSE NameInText(FileData(fs, p), out_name_size)

\* the decimal value of a run of digits
RECURSIVE DecVal(_)
DecVal(ds) ==
    IF ds = << >> THEN 0
    ELSE DecVal(SubSeq(ds, 1, Len(ds) - 1)) * 10 + DigitVal(ds[Len(ds)])

\* what %lu stores for a minus sign and the magnitude m > 0: 2^32 - m in the
\* uint32_t.  The texts hold runs of at most four digits, so that value is beyond
\* every number it is compared with; it is written as the largest integer the
\* checker represents
UINT_FAR == 2147483647
Negated(m) == UINT_FAR

\* %lu on the digits: the longest run of digits, at least one
ScanDigits(neg, r3) ==
    [found |-> TRUE,
     conv |-> IF LeadingRun(r3, Digits) > 0 THEN 1 ELSE 0,
     val |-> IF LeadingRun(r3, Digits) = 0 THEN 0
             ELSE IF neg /\ DecVal(SubSeq(r3, 1, LeadingRun(r3, Digits))) > 0
                  THEN Negated(DecVal(SubSeq(r3, 1, LeadingRun(r3, Digits))))
                  ELSE DecVal(SubSeq(r3, 1, LeadingRun(r3, Digits)))]

\* %lu on the optional sign
ScanSign(r2) ==
    IF r2 # << >> /\ r2[1] \in {"+", "-"} THEN ScanDigits(r2[1] = "-", Tail(r2))
    ELSE ScanDigits(FALSE, r2)

\* the blank of the format and %lu skip white space
ScanBlank(rest) ==
    ScanSign(SubSeq(rest, LeadingRun(rest, Whitespace) + 1, Len(rest)))

\* sscanf(strstr(text, key), "<key> %lu", &val) (lines 200-206, 210-215): white
\* space is skipped, an optional sign is read, then the longest run of digits;
\* conv is sscanf's return value, val the uint32_t it stored
ScanUnsigned(text, key) ==
    IF FirstIndex(text, key) = 0 THEN [found |-> FALSE, conv |-> 0, val |-> 0]
    ELSE ScanBlank(SubSeq(text, FirstIndex(text, key) + 1, Len(text)))

\* mutant: one good dimension is enough
DimensionsFound_Either(found_w, found_h) == found_w \/ found_h

\* the result of theme_manager_parse_meta_dimensions (line 222)
DimensionsFound(found_w, found_h) == found_w /\ found_h

\* the range checks of lines 203 and 213
InRange(sc, max) == sc.found /\ sc.conv = 1 /\ sc.val > 0 /\ sc.val <= max

\* lines 198-222 on the two scans
MetaResult(sw, sh) ==
    [ok |-> DimensionsFound(InRange(sw, 128), InRange(sh, 64)),
     w |-> IF InRange(sw, 128) THEN sw.val % 256 ELSE 0,
     h |-> IF InRange(sh, 64) THEN sh.val % 256 ELSE 0]

\* theme_manager_parse_meta_dimensions (lines 173-223): the return value and
\* what *out_w and *out_h hold when it returns
ParseMetaDimensions(fs, p) ==
    IF ~HasFile(fs, p) THEN [ok |-> FALSE, w |-> 0, h |-> 0]
    ELSE MetaResult(ScanUnsigned(FileData(fs, p), "Width:"),
                    ScanUnsigned(FileData(fs, p), "Height:"))

\* ------------------------------------------------------- the storage volume
ThemeDir(n, fs) == [name |-> n, isdir |-> TRUE, files |-> fs]

PackFiles ==
    { << <<MANIFEST_FILENAME>>, <<MANIFEST_HEADER, NL, "Name:", " ", "X", NL>> >>,
      << <<"X", "frame_0.bm">>, <<"bmX">> >> }
AnimsPackFiles ==
    { << <<ANIMS_DIRNAME, MANIFEST_FILENAME>>, <<MANIFEST_HEADER, NL, "Name:", " ", "Y", NL>> >>,
      << <<ANIMS_DIRNAME, "Y", "frame_0.bm">>, <<"bmY">> >>,
      << <<"readme.txt">>, <<"doc">> >> }
SingleFiles ==
    { << <<META_FILENAME>>, <<"Width:", " ", "1", "6", NL, "Height:", " ", "1", "6", NL>> >>,
      << <<"frame_0.bm">>, <<"bmZ">> >> }

InitRoots ==
    { [ex |-> TRUE,
       list |-> << ThemeDir("T1", PackFiles), ThemeDir("T2", AnimsPackFiles),
                   ThemeDir("T3", SingleFiles) >>],
      [ex |-> FALSE, list |-> << >>] }
InitActives ==
    { AbsentDir,
      ExistingDir({ << <<MANIFEST_FILENAME>>, <<MANIFEST_HEADER, NL, "Name:", " ", "old", NL>> >>,
                    << <<"old", "frame_0.bm">>, <<"bmO">> >> }) }
InitSlots ==
    { AbsentDir,
      ExistingDir({ << <<"prev", "frame_0.bm">>, <<"bmP">> >> }) }

VARIABLES
    root,            \* animation_packs/: [ex, list], list in directory-listing order
    active,          \* dolphin/
    slot,            \* dolphin_backup/
    theme_names,     \* app->theme_names[0 .. theme_count-1]
    theme_types,     \* app->theme_types[0 .. theme_count-1]
    theme_count,     \* app->theme_count
    selected_index,  \* app->selected_index
    has_backup,      \* app->has_backup
    menu,            \* the submenu's items: [n, restore]
    view,            \* the view dispatcher's current view
    pc,              \* position of the running handler, "idle" between events
    faults,          \* storage calls that have failed so far
    cur,             \* history: the engine operation in flight
    oplog,           \* history: storage mutations issued by the last operation
    pre,             \* history: state when the last operation started
    bk,              \* history: how backup() returned in the last apply
    last,            \* history: the last completed engine operation and its result
    applyPre,        \* history: active directory before the last successful apply
    info_model,      \* the preview fields of InfoViewModel
    info_text,       \* the text fields of InfoViewModel: name, type_label, anim_count
    heap,            \* the preview buffers allocated and not freed, and any misuse
    plog,            \* history: the last load_preview and how its external calls ended
    drawn,           \* history: what the last info_draw read from the model
    pfile,           \* the file or directory a function is applied to on its own
    pout,            \* what the function returned
    pstack           \* the frames of get_dir_size in progress, innermost last

vars == << root, active, slot, theme_names, theme_types, theme_count, selected_index,
           has_backup, menu, view, pc, faults, cur, oplog, pre, bk, last, applyPre,
           info_model, info_text, heap, plog, drawn, pfile, pout, pstack >>

fsvars == << root, active, slot >>
catvars == << theme_names, theme_types, theme_count, has_backup >>
histvars == << cur, oplog, pre, bk, last, applyPre >>
pmvars == << info_model, info_text, heap >>
parsevars == << pfile, pout, pstack >>

\* ------------------------------------------------------------------- scan
\* mutant: the probes run in the opposite order
DetectType_MetaFirst(fs) ==
    IF HasFile(fs, <<META_FILENAME>>) THEN ThemeTypeSingle
    ELSE IF HasFile(fs, <<ANIMS_DIRNAME, MANIFEST_FILENAME>>) THEN ThemeTypeAnimsPack
    ELSE IF HasFile(fs, <<MANIFEST_FILENAME>>) THEN ThemeTypePack
    ELSE "none"

\* the probes of lines 494-523, first existing file wins
DetectType(fs) ==
    IF HasFile(fs, <<MANIFEST_FILENAME>>) THEN ThemeTypePack
    ELSE IF HasFile(fs, <<ANIMS_DIRNAME, MANIFEST_FILENAME>>) THEN ThemeTypeAnimsPack
    ELSE IF HasFile(fs, <<META_FILENAME>>) THEN ThemeTypeSingle
    ELSE "none"

\* mutant: the listing is read to its end whatever the catalog holds
ScanContinue_NoCap(count) == TRUE

\* the first conjunct of the loop condition, line 488
ScanContinue(count) == count < MAX_THEMES

\* the loop of lines 488-533 over the directory listing: the entries that are
\* directories with a marker file are appended, in listing order, for as long as
\* the loop condition holds
ScanList(list, acc) ==
    LET q == SelectSeq(list, LAMBDA e : e.isdir /\ DetectType(e.files) # "none")
        k == CHOOSE n \in 0..Len(q) :
                 /\ \A j \in 0..(n - 1) : ScanContinue(Len(acc) + j)
                 /\ n = Len(q) \/ ~ScanContinue(Len(acc) + n)
    IN  acc \o [i \in 1..k |-> [name |-> q[i].name, type |-> DetectType(q[i].files)]]

\* mutant: the backup slot is probed only after the root was found
ScanThemes_RootFirst(r, s) ==
    LET found == IF r.ex THEN ScanList(r.list, << >>) ELSE << >> IN
    [names |-> [i \in 1..Len(found) |-> found[i].name],
     types |-> [i \in 1..Len(found) |-> found[i].type],
     count |-> Len(found),
     has_backup |-> r.ex /\ s.ex]

\* theme_manager_scan_themes: the catalog and has_backup it leaves
ScanThemes(r, s) ==
    LET found == IF r.ex THEN ScanList(r.list, << >>) ELSE << >> IN
    [names |-> [i \in 1..Len(found) |-> found[i].name],
     types |-> [i \in 1..Len(found) |-> found[i].type],
     count |-> Len(found),
     has_backup |-> s.ex]

\* theme_manager_populate_submenu: one item per catalog entry, the restore item
\* when has_backup
PopulateSubmenu(count, hb) == [n |-> count, restore |-> hb]

\* the entry of animation_packs/ with the given name
RootFiles(r, n) == (CHOOSE e \in {r.list[i] : i \in 1..Len(r.list)} : e.name = n).files
\* mutant: the removal takes the whole theme root
RootWithout_All(r, n) == [r EXCEPT !.list = << >>]
\* storage_simply_remove_recursive of animation_packs/<n>, successful
RootWithout(r, n) ==
    [r EXCEPT !.list = SelectSeq(r.list, LAMBDA e : e.name # n)]
RootWith(r, n, fs) ==
    [r EXCEPT !.list = [i \in 1..Len(r.list) |->
                          IF r.list[i].name = n THEN [r.list[i] EXCEPT !.files = fs]
                          ELSE r.list[i]]]

\* ----------------------------------------------------------------- history
Snapshot ==
    [active |-> active, slot |-> slot, root |-> root, has_backup |-> has_backup,
     names |-> theme_names, types |-> theme_types, count |-> theme_count]
NoApplyPre == [valid |-> FALSE, dir |-> AbsentDir]
NULL == 0
\* the preview fields theme_manager_app and load_preview's reset leave
\* (lines 1193-1200, 284-291)
NoPreview ==
    [frame_data |-> NULL, frame_size |-> 0, frame_w |-> 0, frame_h |-> 0,
     preview_loaded |-> FALSE]
\* no draw of the info view since the last user event
NoDraw == [at |-> "none", model |-> NoPreview, blocks |-> {}]
NoSnapshot ==
    [active |-> AbsentDir, slot |-> AbsentDir, root |-> [ex |-> FALSE, list |-> << >>],
     has_backup |-> FALSE, names |-> << >>, types |-> << >>, count |-> 0]
\* the record of an operation is kept until the next user event
Forget ==
    /\ pre' = NoSnapshot
    /\ oplog' = << >>
    /\ bk' = "none"
    /\ last' = [op |-> "none", ok |-> FALSE]
    /\ plog' = << >>
    /\ drawn' = NoDraw
    /\ UNCHANGED << cur, applyPre >>
Logged(tag, ok) == Append(oplog, [op |-> tag, by |-> cur, ok |-> ok])

\* ------------------------------------------------------------ preview state
\* the text fields of the zero-filled model view_alloc_model leaves (lines 64-67)
NoText == [name |-> "", type_label |-> "", anim_count |-> 0]
\* no preview buffer allocated; freed holds the addresses released and not handed
\* out again
EmptyHeap == [live |-> {}, freed |-> {}, fault |-> "none"]
\* the parser harness at rest
NoFile == [ex |-> FALSE, data |-> << >>]
NoResult == [fn |-> "none"]

\* addresses the allocator hands out
MaxBlocks == 2
Addrs == 1..MaxBlocks
PREVIEW_MAX_BM_SIZE == 2048

\* free(p): the block leaves the heap; a free of what is not allocated is recorded
Free(hp, a) ==
    IF \E b \in hp.live : b.addr = a
    THEN [hp EXCEPT !.live = {b \in hp.live : b.addr # a}, !.freed = @ \cup {a}]
    ELSE [hp EXCEPT !.fault = "bad_free"]
\* malloc(size) returning the address a
Malloc(hp, a, size) ==
    [hp EXCEPT !.live = @ \cup {[addr |-> a, size |-> size]}, !.freed = @ \ {a}]
FreeAddrs(hp) == Addrs \ {b.addr : b \in hp.live}

\* mutant: load_preview drops the old pointer without freeing the buffer
PreviewResetHeap_NoFree(m, hp) == hp

\* load_preview's first block (lines 284-287): the buffer of the preview shown
\* before is freed
PreviewResetHeap(m, hp) ==
    IF m.frame_data # NULL THEN Free(hp, m.frame_data) ELSE hp

\* mutant: the reset frees the buffer and leaves the pointer in the model
PreviewResetModel_KeepPointer(m) ==
    [m EXCEPT !.preview_loaded = FALSE, !.frame_w = 0, !.frame_h = 0, !.frame_size = 0]

\* load_preview's first locked section (lines 284-291) on the model: the pointer
\* is cleared and the preview fields are zeroed
PreviewResetModel(m) ==
    [m EXCEPT !.frame_data = NULL, !.preview_loaded = FALSE, !.frame_w = 0,
              !.frame_h = 0, !.frame_size = 0]

\* the teardown of theme_manager_app (lines 1241-1250)
TeardownHeap(m, hp) ==
    IF m.frame_data # NULL THEN Free(hp, m.frame_data) ELSE hp

\* the size check of line 372, negated
FrameSizeOk(size) == ~(size > PREVIEW_MAX_BM_SIZE \/ size < 2)

\* lines 315-318, 330-344: the paths are formed when the name was found
BaseOf(sub, f) == [ok |-> f.found, path |-> sub \o << f.name >>]

\* the switch of lines 303-349: the directory, inside the theme directory, that
\* holds the first animation's meta.txt and frame_0.bm; ok is false when
\* meta_path stays empty
PreviewBase(type, dir) ==
    IF type = ThemeTypeSingle THEN [ok |-> TRUE, path |-> << >>]
    ELSE IF type = ThemeTypePack
    THEN BaseOf(<< >>, GetFirstAnimName(dir, << MANIFEST_FILENAME >>, MAX_NAME_LEN))
    ELSE BaseOf(<< ANIMS_DIRNAME >>,
                GetFirstAnimName(dir, << ANIMS_DIRNAME, MANIFEST_FILENAME >>,
                                 MAX_NAME_LEN))

\* the preview load_preview does not install
NoneLoaded(calls) == [loaded |-> FALSE, w |-> 0, h |-> 0, size |-> 0, calls |-> calls]

\* what an uninitialised file_info.size may hold: below, inside and above the
\* accepted range
JunkSizes == {0, 2, PREVIEW_MAX_BM_SIZE, PREVIEW_MAX_BM_SIZE + 1}

\* what compress_icon_decode leaves in decoded: nothing, a pointer to the
\* decoder's own buffer, or (a frame stored uncompressed) a pointer into the
\* input buffer
DecodeOutcomes == {"null", "own", "input"}

\* the ways the calls of load_preview on the frame file and the decoder can end;
\* junk is what file_info.size holds when storage_common_stat did not fill it
PreviewEnvs ==
    [open : BOOLEAN, stat : BOOLEAN, read : BOOLEAN, decode : DecodeOutcomes,
     junk : JunkSizes]

\* lines 369-370: file_info is not initialised and the result of
\* storage_common_stat is not looked at
StatSize(actual, env) == IF env.stat THEN actual ELSE env.junk
StatTag(env) == IF env.stat THEN "stat" ELSE "stat_failed"

\* lines 383-388: storage_file_read gives at most what the file holds
ReadBytes(actual, size, env) ==
    IF ~env.read THEN 0 ELSE IF size <= actual THEN size ELSE actual

\* line 410: the memcpy reads where decoded points
CopyTag(env) == IF env.decode = "input" THEN "copy_from_raw" ELSE "copy_from_decoder"

\* load_preview from the size check on (lines 372-423), with its calls in the
\* order of the source: read, then free(raw) on a short read; else decode,
\* free(raw), the check of decoded, and then malloc and memcpy; actual is the
\* length of the frame file, size what file_info.size holds
LoadSized(actual, size, meta, env) ==
    IF ~FrameSizeOk(size) THEN NoneLoaded(<< "opened", StatTag(env) >>)
    ELSE IF ReadBytes(actual, size, env) # size
         THEN NoneLoaded(<< "opened", StatTag(env), "read_short", "free_raw" >>)
    ELSE IF env.decode = "null"
         THEN NoneLoaded(<< "opened", StatTag(env), "read", "decode_null", "free_raw" >>)
    ELSE [loaded |-> TRUE, w |-> meta.w, h |-> meta.h,
          size |-> ((meta.w + 7) \div 8) * meta.h,
          calls |-> << "opened", StatTag(env), "read", "decoded", "free_raw",
                       CopyTag(env) >>]

\* load_preview from the open of the frame file on (lines 360-370)
LoadFrame(dir, frame_path, meta, env) ==
    IF ~(HasFile(dir, frame_path) /\ env.open) THEN NoneLoaded(<< "open_failed" >>)
    ELSE LoadSized(Len(FileData(dir, frame_path)),
                   StatSize(Len(FileData(dir, frame_path)), env), meta, env)

\* lines 351-358: the meta file must parse; then one result for each way the
\* calls on the frame file and the decoder can end
LoadMeta(dir, path, meta) ==
    IF ~meta.ok THEN { NoneLoaded(<< >>) }
    ELSE { LoadFrame(dir, path \o << "frame_0.bm" >>, meta, env) : env \in PreviewEnvs }

\* lines 303-352: without a first animation name meta_path is empty
LoadBase(dir, base) ==
    IF ~base.ok THEN { NoneLoaded(<< >>) }
    ELSE LoadMeta(dir, base.path,
                  ParseMetaDimensions(dir, base.path \o << META_FILENAME >>))

\* theme_manager_load_preview after its reset (lines 295-429): the results it can
\* have, each with what it installs and how its calls on the frame file and the
\* decoder ended
LoadPreview(r, index, count, names, types) ==
    IF index >= count THEN { NoneLoaded(<< >>) }
    ELSE LoadBase(RootFiles(r, names[index + 1]),
                  PreviewBase(types[index + 1], RootFiles(r, names[index + 1])))

\* show_info, lines 885-913: the label of the type
TypeLabel(type) ==
    IF type = ThemeTypePack THEN "Pack"
    ELSE IF type = ThemeTypeAnimsPack THEN "Anim Pack"
    ELSE "Single"

\* show_info, lines 887-909: the count parse_manifest leaves for a Pack or an
\* AnimsPack, whatever it returns, and 1 for a Single
AnimCount(type, dir) ==
    IF type = ThemeTypePack THEN ParseManifest(dir, << MANIFEST_FILENAME >>).count
    ELSE IF type = ThemeTypeAnimsPack
    THEN ParseManifest(dir, << ANIMS_DIRNAME, MANIFEST_FILENAME >>).count
    ELSE 1

\* mutant: the model shows the first theme of the catalog
ShowInfoText_First(r, index, names, types) ==
    [name |-> names[1],
     type_label |-> "Type: " \o TypeLabel(types[1]),
     anim_count |-> AnimCount(types[1], RootFiles(r, names[1]))]

\* show_info, lines 933-944: the text fields written to the model
ShowInfoText(r, index, names, types) ==
    [name |-> names[index + 1],
     type_label |-> "Type: " \o TypeLabel(types[index + 1]),
     anim_count |-> AnimCount(types[index + 1], RootFiles(r, names[index + 1]))]

\* -------------------------------------------------------------------- Init
Init ==
    /\ root \in InitRoots
    /\ active \in InitActives
    /\ slot \in InitSlots
    /\ theme_names = << >>
    /\ theme_types = << >>
    /\ theme_count = 0
    /\ selected_index = 0
    /\ has_backup = FALSE
    /\ menu = [n |-> 0, restore |-> FALSE]
    /\ view = "None"
    /\ pc = "start"
    /\ faults = 0
    /\ cur = "none"
    /\ oplog = << >>
    /\ pre = NoSnapshot
    /\ bk = "none"
    /\ last = [op |-> "none", ok |-> FALSE]
    /\ applyPre = NoApplyPre
    /\ info_model = NoPreview
    /\ info_text = NoText
    /\ heap = EmptyHeap
    /\ plog = << >>
    /\ drawn = NoDraw
    /\ pfile = NoFile
    /\ pout = NoResult
    /\ pstack = << >>

\* theme_manager_app up to view_dispatcher_run: scan, populate, show the list
AppStart ==
    /\ pc = "start"
    /\ LET c == ScanThemes(root, slot) IN
       /\ theme_names' = c.names
       /\ theme_types' = c.types
       /\ theme_count' = c.count
       /\ has_backup' = c.has_backup
       /\ menu' = PopulateSubmenu(c.count, c.has_backup)
    /\ view' = "Submenu"
    /\ pc' = "idle"
    /\ UNCHANGED << fsvars, selected_index, faults, histvars >>
    /\ UNCHANGED << pmvars, plog, drawn, parsevars >>


\* mutant: the backup directory is probed before the active directory
BackupEntry_SlotFirst(a, s) ==
    IF s.ex THEN "backup_remove"
    ELSE IF ~a.ex THEN "noop"
    ELSE "backup_rename"

\* ------------------------------------------------------- engine decisions
\* theme_manager_backup_dolphin up to its first storage mutation (lines 549-555)
BackupEntry(a, s) ==
    IF ~a.ex THEN "noop"
    ELSE IF s.ex THEN "backup_remove"
    ELSE "backup_rename"


\* mutant: backup removes the active directory, as restore does
BackupRemovePath_Active == "active"

\* the directory backup removes before the rename (line 554)
BackupRemovePath == "slot"


\* mutant: a successful backup leaves has_backup as it was
BackupReturn_FlagNotSet(ok, hb) == [ret |-> ok, has_backup |-> hb]

\* theme_manager_backup_dolphin after the rename (lines 558-565)
BackupReturn(ok, hb) ==
    IF ok THEN [ret |-> TRUE, has_backup |-> TRUE]
    ELSE [ret |-> FALSE, has_backup |-> hb]


\* mutant: apply goes on without a backup
ApplyEntry_NoBackup(index, count, a, s) ==
    IF index >= count THEN "fail" ELSE "noop"

\* theme_manager_apply_theme up to the backup (lines 648-650)
ApplyEntry(index, count, a, s) ==
    IF index >= count THEN "fail" ELSE BackupEntry(a, s)


\* mutant: apply goes on after a failed backup
ApplyAfterBackup_IgnoreFailure(ret) == "apply_mkdir"
\* mutant: apply starts the merge without creating the active directory
ApplyAfterBackup_SkipMkdir(ret) ==
    IF ret THEN "pack_merge" ELSE "fail"

\* theme_manager_apply_theme after backup returned (lines 650-655)
ApplyAfterBackup(ret) ==
    IF ret THEN "apply_mkdir" ELSE "fail"

\* the switch of theme_manager_apply_theme (lines 663-677)
ApplyDispatch(type) ==
    IF type = ThemeTypeSingle THEN "single_mkdir" ELSE "pack_merge"


\* mutant: an AnimsPack is merged from the theme root
MergeSrc_ThemeRoot(type, fs) == fs

\* the merge source of a Pack or AnimsPack inside the theme directory (lines 665, 670)
MergeSrc(type, fs) ==
    IF type = ThemeTypeAnimsPack THEN SubTree(fs, ANIMS_DIRNAME) ELSE fs


\* mutant: restore does not check that the backup exists
RestoreEntry_NoGuard(a, s) ==
    IF a.ex THEN "restore_remove" ELSE "restore_rename"

\* theme_manager_restore_backup up to its first storage mutation (lines 687-693)
RestoreEntry(a, s) ==
    IF ~s.ex THEN "fail"
    ELSE IF a.ex THEN "restore_remove"
    ELSE "restore_rename"

\* the directory restore removes before the rename (line 692)
RestoreRemovePath == "active"


\* mutant: a successful restore leaves has_backup as it was
RestoreReturn_FlagKept(ok, hb) == [ret |-> ok, has_backup |-> hb]

\* mutant: the flag is cleared however the rename ended
RestoreReturn_FlagCleared(ok, hb) == [ret |-> ok, has_backup |-> FALSE]

\* theme_manager_restore_backup after the rename (lines 696-703)
RestoreReturn(ok, hb) ==
    IF ok THEN [ret |-> TRUE, has_backup |-> FALSE]
    ELSE [ret |-> FALSE, has_backup |-> hb]

\* storage_common_rename succeeds only from an existing source to a free name
RenamePossible(src, dst) == src.ex /\ ~dst.ex

\* the catalog entry apply and delete act on
SelName == theme_names[selected_index + 1]
SelType == theme_types[selected_index + 1]

\* --------------------------------------------------------------- apply
\* mutant: a failed apply returns without the error popup
ApplyReturn_Silent(ok) ==
    /\ view' = IF ok THEN "Reboot" ELSE "Loading"
    /\ pc' = "idle"
    /\ cur' = "none"
    /\ last' = [op |-> "apply", ok |-> ok]
    /\ applyPre' = IF ok THEN [valid |-> TRUE, dir |-> pre.active] ELSE NoApplyPre

\* confirm_callback after apply_theme returned (lines 991-1026): reboot dialog
\* or error popup
ApplyReturn(ok) ==
    /\ view' = IF ok THEN "Reboot" ELSE "Popup"
    /\ pc' = "idle"
    /\ cur' = "none"
    /\ last' = [op |-> "apply", ok |-> ok]
    /\ applyPre' = IF ok THEN [valid |-> TRUE, dir |-> pre.active] ELSE NoApplyPre

\* a storage call's outcome: it may fail while the failure budget lasts
Outcome(ok) ==
    /\ ~ok => faults < MaxFailures
    /\ faults' = IF ok THEN faults ELSE faults + 1

\* storage_simply_remove_recursive on the active directory or the backup slot
RemoveDir(path, ok) ==
    LET d == IF path = "slot" THEN slot ELSE active IN
    \E r \in (IF ok THEN {AbsentDir} ELSE RemovePartial(d)) :
        /\ slot' = IF path = "slot" THEN r ELSE slot
        /\ active' = IF path = "slot" THEN active ELSE r

\* the Apply button of the confirmation dialog: show Loading, enter apply_theme
ConfirmRight ==
    /\ pc = "idle" /\ view = "Confirm"
    /\ pre' = Snapshot
    /\ oplog' = << >>
    /\ applyPre' = NoApplyPre
    /\ LET e == ApplyEntry(selected_index, theme_count, active, slot) IN
       IF e = "fail"
       THEN /\ view' = "Popup" /\ pc' = "idle" /\ cur' = "none" /\ bk' = "none"
            /\ last' = [op |-> "apply", ok |-> FALSE]
       ELSE /\ view' = "Loading" /\ cur' = "apply"
            /\ pc' = IF e = "noop" THEN ApplyAfterBackup(TRUE) ELSE e
            /\ bk' = IF e = "noop" THEN "noop" ELSE "none"
            /\ last' = last
    /\ UNCHANGED << fsvars, catvars, selected_index, menu, faults >>
    /\ UNCHANGED << pmvars, plog, drawn, parsevars >>

\* backup: storage_simply_remove_recursive of the old backup (line 554)
BackupRemove ==
    /\ pc = "backup_remove"
    /\ \E ok \in BOOLEAN :
        /\ Outcome(ok)
        /\ RemoveDir(BackupRemovePath, ok)
        /\ oplog' = Logged("remove", ok)
    /\ pc' = "backup_rename"
    /\ UNCHANGED << root, catvars, selected_index, menu, view, cur, pre, bk, last, applyPre >>
    /\ UNCHANGED << pmvars, plog, drawn, parsevars >>

\* backup: storage_common_rename(DOLPHIN_PATH, DOLPHIN_BACKUP_PATH) and the return
BackupRename ==
    /\ pc = "backup_rename"
    /\ \E ok \in BOOLEAN :
        /\ ok => RenamePossible(active, slot)
        /\ IF RenamePossible(active, slot) THEN Outcome(ok) ELSE faults' = faults
        /\ active' = IF ok THEN AbsentDir ELSE active
        /\ slot' = IF ok THEN active ELSE slot
        /\ oplog' = Logged("rename", ok)
        /\ LET rr == BackupReturn(ok, has_backup) IN
           /\ has_backup' = rr.has_backup
           /\ bk' = IF rr.ret THEN "ok" ELSE "fail"
           /\ IF ApplyAfterBackup(rr.ret) = "fail"
              THEN ApplyReturn(FALSE)
              ELSE /\ pc' = ApplyAfterBackup(rr.ret)
                   /\ UNCHANGED << view, cur, last, applyPre >>
    /\ UNCHANGED << root, theme_names, theme_types, theme_count, selected_index, menu, pre >>
    /\ UNCHANGED << pmvars, plog, drawn, parsevars >>

\* apply: storage_common_mkdir(DOLPHIN_PATH), result ignored (line 655)
ApplyMkdir ==
    /\ pc = "apply_mkdir"
    /\ \E ok \in BOOLEAN :
        /\ ok => ~active.ex
        /\ IF active.ex THEN faults' = faults ELSE Outcome(ok)
        /\ active' = IF ok THEN ExistingDir({}) ELSE active
        /\ oplog' = Logged("mkdir", ok)
    /\ pc' = ApplyDispatch(SelType)
    /\ UNCHANGED << root, slot, catvars, selected_index, menu, view, cur, pre, bk, last, applyPre >>
    /\ UNCHANGED << pmvars, plog, drawn, parsevars >>

\* apply_pack: storage_common_merge(src, DOLPHIN_PATH) (lines 571-581); the merge
\* creates a missing destination directory or fails on it
PackMerge ==
    /\ pc = "pack_merge"
    /\ LET src == MergeSrc(SelType, RootFiles(root, SelName)) IN
       \E ok \in BOOLEAN :
        /\ IF active.ex THEN Outcome(ok) ELSE faults' = faults
        /\ IF ok THEN active' = ExistingDir(MergeInto(active.files, src))
           ELSE IF active.ex
                THEN \E fs \in MergePartial(active.files, src) : active' = ExistingDir(fs)
                ELSE active' = active
        /\ oplog' = Logged("merge", ok)
        /\ ApplyReturn(ok)
    /\ UNCHANGED << root, slot, catvars, selected_index, menu, pre, bk >>
    /\ UNCHANGED << pmvars, plog, drawn, parsevars >>

\* apply_single: storage_common_mkdir(DOLPHIN_PATH/<name>) (line 592); the empty
\* subdirectory is not represented
SingleMkdir ==
    /\ pc = "single_mkdir"
    /\ oplog' = Logged("mkdir_sub", active.ex)
    /\ pc' = "single_merge"
    /\ UNCHANGED << fsvars, catvars, selected_index, menu, view, faults, cur, pre, bk, last,
                    applyPre >>
    /\ UNCHANGED << pmvars, plog, drawn, parsevars >>

\* apply_single: storage_common_merge(src_dir, dst_dir) (lines 594-603)
SingleMerge ==
    /\ pc = "single_merge"
    /\ LET src == UnderDir(SelName, RootFiles(root, SelName)) IN
       \E ok \in BOOLEAN :
        /\ ok => active.ex
        /\ IF active.ex THEN Outcome(ok) ELSE faults' = faults
        /\ IF ok THEN active' = ExistingDir(MergeInto(active.files, src))
           ELSE IF active.ex
                THEN \E fs \in MergePartial(active.files, src) : active' = ExistingDir(fs)
                ELSE active' = active
        /\ oplog' = Logged("merge_sub", ok)
        /\ IF ok THEN /\ pc' = "single_open"
                      /\ UNCHANGED << view, cur, last, applyPre >>
           ELSE ApplyReturn(FALSE)
    /\ UNCHANGED << root, slot, catvars, selected_index, menu, pre, bk >>
    /\ UNCHANGED << pmvars, plog, drawn, parsevars >>

\* apply_single: storage_file_open(DOLPHIN_MANIFEST, FSAM_WRITE, FSOM_CREATE_ALWAYS)
\* (lines 605-610): the file is created or truncated
SingleOpen ==
    /\ pc = "single_open"
    /\ \E ok \in BOOLEAN :
        /\ Outcome(ok)
        /\ active' = IF ok
                     THEN ExistingDir(MergeInto(active.files,
                                                {<< <<MANIFEST_FILENAME>>, << >> >>}))
                     ELSE active
        /\ oplog' = Logged("open", ok)
        /\ IF ok THEN /\ pc' = "single_write"
                      /\ UNCHANGED << view, cur, last, applyPre >>
           ELSE ApplyReturn(FALSE)
    /\ UNCHANGED << root, slot, catvars, selected_index, menu, pre, bk >>
    /\ UNCHANGED << pmvars, plog, drawn, parsevars >>

\* apply_single: storage_file_write of the manifest text (lines 612-641); a short
\* write leaves a proper prefix of the text
SingleWrite ==
    /\ pc = "single_write"
    /\ LET text == ManifestText(SelName) IN
       \E ok \in BOOLEAN :
        /\ Outcome(ok)
        /\ \E k \in (IF ok THEN {Len(text)} ELSE 0..(Len(text) - 1)) :
             active' = ExistingDir(MergeInto(active.files,
                           {<< <<MANIFEST_FILENAME>>, SubSeq(text, 1, k) >>}))
        /\ oplog' = Logged("write", ok)
        /\ ApplyReturn(ok)
    /\ UNCHANGED << root, slot, catvars, selected_index, menu, pre, bk >>
    /\ UNCHANGED << pmvars, plog, drawn, parsevars >>

\* ------------------------------------------------------------- restore
\* submenu_callback's two outcomes of restore_backup (lines 958-973)
RestoreDone(ok) ==
    /\ view' = IF ok THEN "Reboot" ELSE "Popup"
    /\ pc' = "idle"
    /\ cur' = "none"
    /\ last' = [op |-> "restore", ok |-> ok]

\* the '>> Restore Previous <<' item: submenu_callback(MENU_INDEX_RESTORE) enters
\* restore_backup
SubmenuRestore ==
    /\ pc = "idle" /\ view = "Submenu" /\ menu.restore
    /\ pre' = Snapshot
    /\ oplog' = << >>
    /\ bk' = "none"
    /\ LET e == RestoreEntry(active, slot) IN
       IF e = "fail"
       THEN RestoreDone(FALSE)
       ELSE /\ pc' = e /\ cur' = "restore"
            /\ UNCHANGED << view, last >>
    /\ UNCHANGED << fsvars, catvars, selected_index, menu, faults, applyPre >>
    /\ UNCHANGED << pmvars, plog, drawn, parsevars >>

\* restore: storage_simply_remove_recursive of the active directory (line 692)
RestoreRemove ==
    /\ pc = "restore_remove"
    /\ \E ok \in BOOLEAN :
        /\ Outcome(ok)
        /\ RemoveDir(RestoreRemovePath, ok)
        /\ oplog' = Logged("remove", ok)
    /\ pc' = "restore_rename"
    /\ UNCHANGED << root, catvars, selected_index, menu, view, cur, pre, bk, last, applyPre >>
    /\ UNCHANGED << pmvars, plog, drawn, parsevars >>

\* restore: storage_common_rename(DOLPHIN_BACKUP_PATH, DOLPHIN_PATH) and the return
RestoreRename ==
    /\ pc = "restore_rename"
    /\ \E ok \in BOOLEAN :
        /\ ok => RenamePossible(slot, active)
        /\ IF RenamePossible(slot, active) THEN Outcome(ok) ELSE faults' = faults
        /\ active' = IF ok THEN slot ELSE active
        /\ slot' = IF ok THEN AbsentDir ELSE slot
        /\ oplog' = Logged("rename", ok)
        /\ LET rr == RestoreReturn(ok, has_backup) IN
           /\ has_backup' = rr.has_backup
           /\ RestoreDone(rr.ret)
    /\ UNCHANGED << root, theme_names, theme_types, theme_count, selected_index, menu, pre,
                    bk, applyPre >>
    /\ UNCHANGED << pmvars, plog, drawn, parsevars >>

\* -------------------------------------------------------------- delete
\* the Delete button: delete_theme, then rescan and repopulate on success
\* (lines 1050-1071, 709-725)
DeleteRight ==
    /\ pc = "idle" /\ view = "DeleteConfirm"
    /\ pre' = Snapshot
    /\ bk' = "none"
    /\ view' = "Popup"
    /\ IF selected_index >= theme_count
       THEN /\ last' = [op |-> "delete", ok |-> FALSE]
            /\ oplog' = << >>
            /\ UNCHANGED << root, catvars, menu, faults >>
       ELSE \E ok \in BOOLEAN :
            /\ Outcome(ok)
            /\ last' = [op |-> "delete", ok |-> ok]
            /\ oplog' = << [op |-> "remove", by |-> "delete", ok |-> ok] >>
            /\ IF ok
               THEN /\ root' = RootWithout(root, SelName)
                    /\ LET c == ScanThemes(root', slot) IN
                       /\ theme_names' = c.names
                       /\ theme_types' = c.types
                       /\ theme_count' = c.count
                       /\ has_backup' = c.has_backup
                       /\ menu' = PopulateSubmenu(c.count, c.has_backup)
               ELSE /\ \E fs \in SUBSET RootFiles(root, SelName) :
                         root' = RootWith(root, SelName, fs)
                    /\ UNCHANGED << catvars, menu >>
    /\ UNCHANGED << active, slot, selected_index, pc, cur, applyPre >>
    /\ UNCHANGED << pmvars, plog, drawn, parsevars >>

\* ------------------------------------------------------------ navigation
\* a theme item of the list: submenu_callback(i), show_info up to the reset that
\* opens load_preview (lines 977-979, 878-946, 280-293)
SubmenuSelect ==
    /\ pc = "idle" /\ view = "Submenu"
    /\ \E i \in 0..(menu.n - 1) :
        IF i >= theme_count
        THEN UNCHANGED << selected_index, pc, pmvars >>
        ELSE /\ selected_index' = i
             /\ info_text' = ShowInfoText(root, i, theme_names, theme_types)
             /\ heap' = PreviewResetHeap(info_model, heap)
             /\ info_model' = PreviewResetModel(info_model)
             /\ pc' = "load_preview"
    /\ UNCHANGED << fsvars, catvars, menu, view, faults, parsevars >>
    /\ Forget

\* the rest of load_preview and the switch to the info view (lines 295-429, 948)
LoadPreviewBody ==
    /\ pc = "load_preview"
    /\ \E r \in LoadPreview(root, selected_index, theme_count, theme_names,
                            theme_types) :
         /\ plog' = << "load_preview" >> \o r.calls
         /\ IF ~r.loaded THEN UNCHANGED pmvars
            ELSE IF FreeAddrs(heap) = {}
                 THEN /\ heap' = [heap EXCEPT !.fault = "out_of_memory"]
                      /\ UNCHANGED << info_model, info_text >>
            ELSE \E a \in FreeAddrs(heap) :
                   /\ heap' = Malloc(heap, a, r.size)
                   /\ info_model' = [frame_data |-> a, frame_size |-> r.size,
                                     frame_w |-> r.w, frame_h |-> r.h,
                                     preview_loaded |-> TRUE]
                   /\ UNCHANGED info_text
    /\ view' = "Info"
    /\ pc' = "idle"
    /\ UNCHANGED << fsvars, catvars, selected_index, menu, faults, cur, oplog, pre, bk,
                    last, applyPre, drawn, parsevars >>

\* what info_draw reads under the model lock (lines 731-740, 758-760): the
\* preview fields, and through frame_data the heap as it is at that moment
DrawRead(at, m, hp) == [at |-> at, model |-> m, blocks |-> hp.live]

\* the GUI thread runs info_draw (lines 731-812) with the model locked: while the
\* info view is shown, or between the two locked sections of load_preview
\* (after line 293, before line 413)
Draw ==
    /\ \/ pc = "idle" /\ view = "Info"
       \/ pc = "load_preview"
    /\ drawn' = DrawRead(pc, info_model, heap)
    /\ UNCHANGED << fsvars, catvars, selected_index, menu, view, pc, faults, histvars,
                    pmvars, plog, parsevars >>

\* Back on the list: nav_exit stops the dispatcher, the app frees the preview
\* buffer and tears down (lines 1151-1154, 1238-1250)
SubmenuBack ==
    /\ pc = "idle" /\ view = "Submenu"
    /\ view' = "None"
    /\ pc' = "exited"
    /\ heap' = TeardownHeap(info_model, heap)
    /\ info_model' = [info_model EXCEPT !.frame_data = NULL]
    /\ UNCHANGED info_text
    /\ UNCHANGED << fsvars, catvars, selected_index, menu, faults, parsevars >>
    /\ Forget

\* info_input, Left (lines 823-825)
InfoLeft ==
    /\ pc = "idle" /\ view = "Info"
    /\ view' = "Submenu"
    /\ UNCHANGED << fsvars, catvars, selected_index, menu, pc, faults >>
    /\ Forget
    /\ UNCHANGED << pmvars, parsevars >>

\* info_input, Right (lines 827-847)
InfoRight ==
    /\ pc = "idle" /\ view = "Info"
    /\ view' = IF selected_index >= theme_count THEN view ELSE "Confirm"
    /\ UNCHANGED << fsvars, catvars, selected_index, menu, pc, faults >>
    /\ Forget
    /\ UNCHANGED << pmvars, parsevars >>

\* info_input, Ok (lines 849-869)
InfoOk ==
    /\ pc = "idle" /\ view = "Info"
    /\ view' = IF selected_index >= theme_count THEN view ELSE "DeleteConfirm"
    /\ UNCHANGED << fsvars, catvars, selected_index, menu, pc, faults >>
    /\ Forget
    /\ UNCHANGED << pmvars, parsevars >>

\* the other button of the apply and delete confirmations (lines 1028, 1069)
DialogLeft ==
    /\ pc = "idle" /\ view \in {"Confirm", "DeleteConfirm"}
    /\ view' = "Info"
    /\ UNCHANGED << fsvars, catvars, selected_index, menu, pc, faults >>
    /\ Forget
    /\ UNCHANGED << pmvars, parsevars >>

\* reboot_callback, Right: furi_hal_power_reset (line 1039)
RebootRight ==
    /\ pc = "idle" /\ view = "Reboot"
    /\ view' = "None"
    /\ pc' = "reset"
    /\ UNCHANGED << fsvars, catvars, selected_index, menu, faults >>
    /\ Forget
    /\ UNCHANGED << pmvars, parsevars >>

\* reboot_callback, Later: rescan, repopulate, show the list (lines 1041-1043)
RebootLeft ==
    /\ pc = "idle" /\ view = "Reboot"
    /\ LET c == ScanThemes(root, slot) IN
       /\ theme_names' = c.names
       /\ theme_types' = c.types
       /\ theme_count' = c.count
       /\ has_backup' = c.has_backup
       /\ menu' = PopulateSubmenu(c.count, c.has_backup)
    /\ view' = "Submenu"
    /\ UNCHANGED << fsvars, selected_index, pc, faults >>
    /\ Forget
    /\ UNCHANGED << pmvars, parsevars >>

\* the popup's timeout: popup_callback (lines 1076-1079)
PopupTimeout ==
    /\ pc = "idle" /\ view = "Popup"
    /\ view' = "Submenu"
    /\ UNCHANGED << fsvars, catvars, selected_index, menu, pc, faults >>
    /\ Forget
    /\ UNCHANGED << pmvars, parsevars >>

\* the Back key on a view whose previous callback is nav_submenu
\* (lines 1156-1159, 1189, 1205, 1212, 1219, 1226)
NavBack ==
    /\ pc = "idle" /\ view \in {"Info", "Confirm", "Reboot", "DeleteConfirm", "Popup"}
    /\ view' = "Submenu"
    /\ UNCHANGED << fsvars, catvars, selected_index, menu, pc, faults >>
    /\ Forget
    /\ UNCHANGED << pmvars, parsevars >>

Next ==
    \/ AppStart
    \/ SubmenuSelect \/ LoadPreviewBody \/ SubmenuRestore \/ SubmenuBack
    \/ Draw
    \/ InfoLeft \/ InfoRight \/ InfoOk
    \/ DialogLeft \/ NavBack \/ PopupTimeout
    \/ ConfirmRight \/ BackupRemove \/ BackupRename \/ ApplyMkdir
    \/ PackMerge \/ SingleMkdir \/ SingleMerge \/ SingleOpen \/ SingleWrite
    \/ RestoreRemove \/ RestoreRename
    \/ RebootRight \/ RebootLeft
    \/ DeleteRight

Spec == Init /\ [][Next]_vars

\* the steps of theme_manager_apply_theme within confirm_callback: sequential code
\* on the dispatcher's thread, which runs on once started
ApplyStep ==
    \/ BackupRemove \/ BackupRename \/ ApplyMkdir
    \/ PackMerge \/ SingleMkdir \/ SingleMerge \/ SingleOpen \/ SingleWrite

\* the program with its scheduling: an apply runs to its end, and the popup's
\* timer, enabled at lines 1061 and 1088, fires
FairSpec == Spec /\ WF_vars(ApplyStep) /\ WF_vars(PopupTimeout)

\* ------------------------------------------------- the scanner on its own
\* qualifying directories beyond MAX_THEMES in the largest volume
ExtraDirs == 2

\* a plain file in animation_packs/
PlainFile(n) == [name |-> n, isdir |-> FALSE, files |-> {}]

\* the kinds of entry a listing is made of: directories with all, two, one or
\* none of the three marker files, and a plain file
ScanEntries ==
    { ThemeDir("all", PackFiles \cup AnimsPackFiles \cup SingleFiles),
      ThemeDir("am", AnimsPackFiles \cup SingleFiles),
      ThemeDir("s", SingleFiles),
      ThemeDir("junk", { << <<"readme.txt">>, <<"doc">> >> }),
      PlainFile("notes.txt") }

\* more qualifying directories than the catalog holds, behind a plain file and
\* an unmarked directory
CrowdedList ==
    << PlainFile("notes.txt"), ThemeDir("junk", { << <<"readme.txt">>, <<"doc">> >> }) >>
    \o [i \in 1..(MAX_THEMES + ExtraDirs) |-> ThemeDir("D" \o ToString(i), SingleFiles)]

ScanRoots ==
    { [ex |-> FALSE, list |-> << >>], [ex |-> TRUE, list |-> << >>],
      [ex |-> TRUE, list |-> CrowdedList],
      [ex |-> TRUE, list |-> SubSeq(CrowdedList, 1, MAX_THEMES + 2)] }
    \cup { [ex |-> TRUE, list |-> << e >>] : e \in ScanEntries }
    \cup { [ex |-> TRUE, list |-> << p[1], p[2] >>] :
               p \in {q \in ScanEntries \X ScanEntries :
                         q[1] # q[2] /\ q[2].name \in {"s", "all"}} }
    \cup { [ex |-> TRUE,
            list |-> << ThemeDir("junk", { << <<"readme.txt">>, <<"doc">> >> }),
                        ThemeDir("all", PackFiles \cup AnimsPackFiles \cup SingleFiles),
                        PlainFile("notes.txt"),
                        ThemeDir("am", AnimsPackFiles \cup SingleFiles),
                        ThemeDir("s", SingleFiles) >>] }

ScanInit ==
    /\ root \in ScanRoots
    /\ active = AbsentDir
    /\ slot \in InitSlots
    /\ theme_names = << >>
    /\ theme_types = << >>
    /\ theme_count = 0
    /\ selected_index = 0
    /\ has_backup = FALSE
    /\ menu = [n |-> 0, restore |-> FALSE]
    /\ view = "None"
    /\ pc = "start"
    /\ faults = 0
    /\ cur = "none"
    /\ oplog = << >>
    /\ pre = NoSnapshot
    /\ bk = "none"
    /\ last = [op |-> "none", ok |-> FALSE]
    /\ applyPre = NoApplyPre
    /\ info_model = NoPreview
    /\ info_text = NoText
    /\ heap = EmptyHeap
    /\ plog = << >>
    /\ drawn = NoDraw
    /\ pfile = NoFile
    /\ pout = NoResult
    /\ pstack = << >>

\* scan and repopulate before the list is shown again, as reboot_callback and
\* delete_callback run them (lines 1041-1043, 1061-1062)
Rescan ==
    /\ pc = "idle"
    /\ pre' = Snapshot
    /\ last' = [op |-> "scan", ok |-> TRUE]
    /\ LET c == ScanThemes(root, slot) IN
       /\ theme_names' = c.names
       /\ theme_types' = c.types
       /\ theme_count' = c.count
       /\ has_backup' = c.has_backup
       /\ menu' = PopulateSubmenu(c.count, c.has_backup)
    /\ view' = "Submenu"
    /\ UNCHANGED << fsvars, selected_index, pc, faults, cur, oplog, bk, applyPre >>
    /\ UNCHANGED << pmvars, plog, drawn, parsevars >>

\* the volume is shared with the firmware's other applications and the USB host:
\* between two events animation_packs/ and dolphin_backup/ may have changed
VolumeChange ==
    /\ pc = "idle"
    /\ root' \in ScanRoots
    /\ slot' \in InitSlots
    /\ << root', slot' >> # << root, slot >>
    /\ UNCHANGED << active, catvars, selected_index, menu, view, pc, faults >>
    /\ Forget
    /\ UNCHANGED << pmvars, parsevars >>

ScanNext == AppStart \/ Rescan \/ VolumeChange

ScanSpec == ScanInit /\ [][ScanNext]_vars

\* ------------------------------------------------- the parsers on their own
\* length of the texts that are enumerated in full
MaxTextLen == 5

\* every text of at most MaxTextLen lexemes over the lexemes the manifest
\* parsers tell apart
ShortTexts ==
    UNION { [1..n -> {"Name:", NL, CR, " ", "A", MANIFEST_HEADER}] : n \in 0..MaxTextLen }

\* a manifest whose first name has n characters, bare or followed by a blank
LongLines ==
    { << MANIFEST_HEADER, NL, "Name:", " " >> \o [i \in 1..n |-> "a"] \o tl :
        n \in {62, 63, 64, 70}, tl \in {<< >>, << NL >>, << " ", NL >>} }

\* what may follow "Width:" or "Height:"
NumberTexts ==
    { << >>, << "0" >>, << "1" >>, << "6", "4" >>, << "6", "5" >>, << "1", "2", "8" >>,
      << "1", "2", "9" >>, << "x" >>, << "-", "1" >>, << "+", "7" >>, << "1", "6", "x" >>,
      << "2", "5", "7" >> }
MetaField(key, ws, num) == << key >> \o ws \o num \o << NL >>
MetaTexts ==
    { MetaField(k[1], ws, a) \o MetaField(k[2], ws, b) :
        k \in {<< "Width:", "Height:" >>, << "Height:", "Width:" >>},
        ws \in {<< >>, << " " >>, << NL, " " >>}, a \in NumberTexts, b \in NumberTexts }
    \cup { MetaField(k, << " " >>, a) : k \in {"Width:", "Height:"}, a \in NumberTexts }
    \cup { MetaField("Width:", << " " >>, a) \o MetaField("Width:", << " " >>, << "9" >>)
             \o MetaField("Height:", << " " >>, << "9" >>) : a \in NumberTexts }

ParseFiles ==
    { NoFile } \cup
    { [ex |-> TRUE, data |-> t] : t \in ShortTexts \cup LongLines \cup MetaTexts }

\* the path the harness hands to the parsers, and the volume it names a file of
ParsePath == << "f" >>
ParseFs == IF pfile.ex THEN { << ParsePath, pfile.data >> } ELSE {}

ParseInit ==
    /\ pfile \in ParseFiles
    /\ pout = NoResult
    /\ pstack = << >>
    /\ root = [ex |-> FALSE, list |-> << >>]
    /\ active = AbsentDir
    /\ slot = AbsentDir
    /\ theme_names = << >>
    /\ theme_types = << >>
    /\ theme_count = 0
    /\ selected_index = 0
    /\ has_backup = FALSE
    /\ menu = [n |-> 0, restore |-> FALSE]
    /\ view = "None"
    /\ pc = "start"
    /\ faults = 0
    /\ cur = "none"
    /\ oplog = << >>
    /\ pre = NoSnapshot
    /\ bk = "none"
    /\ last = [op |-> "none", ok |-> FALSE]
    /\ applyPre = NoApplyPre
    /\ info_model = NoPreview
    /\ info_text = NoText
    /\ heap = EmptyHeap
    /\ plog = << >>
    /\ drawn = NoDraw

Returned(fn, ret, count, name, w, h) ==
    [fn |-> fn, ret |-> ret, count |-> count, name |-> name, w |-> w, h |-> h]
ParseFrame ==
    UNCHANGED << fsvars, catvars, selected_index, menu, view, pc, faults, histvars,
                 pmvars, plog, drawn, pfile, pstack >>

\* theme_manager_parse_manifest(app, path, &count)
CallParseManifest ==
    /\ pout = NoResult
    /\ pout' = Returned("parse_manifest", ParseManifest(ParseFs, ParsePath).valid,
                        ParseManifest(ParseFs, ParsePath).count, "", 0, 0)
    /\ ParseFrame

\* theme_manager_get_first_anim_name(app, path, out_name, MAX_NAME_LEN)
CallGetFirstAnimName ==
    /\ pout = NoResult
    /\ pout' = Returned("get_first_anim_name",
                        GetFirstAnimName(ParseFs, ParsePath, MAX_NAME_LEN).found, 0,
                        GetFirstAnimName(ParseFs, ParsePath, MAX_NAME_LEN).name, 0, 0)
    /\ ParseFrame

\* theme_manager_parse_meta_dimensions(app, path, &w, &h)
CallParseMetaDimensions ==
    /\ pout = NoResult
    /\ pout' = Returned("parse_meta_dimensions",
                        ParseMetaDimensions(ParseFs, ParsePath).ok, 0, "",
                        ParseMetaDimensions(ParseFs, ParsePath).w,
                        ParseMetaDimensions(ParseFs, ParsePath).h)
    /\ ParseFrame

ParseNext == CallParseManifest \/ CallGetFirstAnimName \/ CallParseMetaDimensions

ParseSpec == ParseInit /\ [][ParseNext]_vars

\* ------------------------------------------------ the preview on its own
\* a frame file of n bytes
Frame(n) == [i \in 1..n |-> "b"]
MetaSquare == << "Width:", " ", "1", "6", NL, "Height:", " ", "1", "6", NL >>
MetaNarrow == << "Width:", " ", "9", NL, "Height:", " ", "3", NL >>
MetaFull == << "Width:", " ", "1", "2", "8", NL, "Height:", " ", "6", "4", NL >>
MetaNoHeight == << "Width:", " ", "1", "6", NL >>
MetaTooWide == << "Width:", " ", "1", "2", "9", NL, "Height:", " ", "6", "4", NL >>
NamedManifest(n) == << MANIFEST_HEADER, NL, "Name:", " ", n, NL >>
SingleTheme(n, meta, frame) ==
    ThemeDir(n, { << <<META_FILENAME>>, meta >>, << <<"frame_0.bm">>, frame >> })

\* themes whose preview loads, and one theme for each way it does not: no
\* "Name:" in the manifest, no meta.txt in the animation's directory, a meta.txt
\* without a height or with a width of 129, no frame file, a frame file of 0,
\* of 1 and of 2049 bytes; last a Pack whose manifest lacks the header line
PreviewThemes ==
    << SingleTheme("S", MetaSquare, Frame(3)),
       ThemeDir("P", { << <<MANIFEST_FILENAME>>, NamedManifest("A") >>,
                       << <<"A", META_FILENAME>>, MetaNarrow >>,
                       << <<"A", "frame_0.bm">>, Frame(5) >> }),
       ThemeDir("Q", { << <<ANIMS_DIRNAME, MANIFEST_FILENAME>>, NamedManifest("B") >>,
                       << <<ANIMS_DIRNAME, "B", META_FILENAME>>, MetaFull >>,
                       << <<ANIMS_DIRNAME, "B", "frame_0.bm">>,
                          Frame(PREVIEW_MAX_BM_SIZE) >> }),
       ThemeDir("Nn", { << <<MANIFEST_FILENAME>>, << MANIFEST_HEADER, NL >> >>,
                        << <<"A", META_FILENAME>>, MetaSquare >>,
                        << <<"A", "frame_0.bm">>, Frame(3) >> }),
       ThemeDir("Nm", { << <<MANIFEST_FILENAME>>, NamedManifest("A") >>,
                        << <<"A", "frame_0.bm">>, Frame(3) >> }),
       SingleTheme("Mh", MetaNoHeight, Frame(3)),
       SingleTheme("Mw", MetaTooWide, Frame(3)),
       ThemeDir("Nf", { << <<META_FILENAME>>, MetaSquare >> }),
       SingleTheme("F0", MetaSquare, Frame(0)),
       SingleTheme("F1", MetaSquare, Frame(1)),
       SingleTheme("Fx", MetaSquare, Frame(PREVIEW_MAX_BM_SIZE + 1)),
       ThemeDir("H", { << <<MANIFEST_FILENAME>>, << "Name:", " ", "A", NL >> >>,
                       << <<"A", META_FILENAME>>, MetaSquare >>,
                       << <<"A", "frame_0.bm">>, Frame(3) >> }) >>

PreviewRoots ==
    { [ex |-> TRUE, list |-> PreviewThemes],
      [ex |-> TRUE, list |-> SubSeq(PreviewThemes, 1, 3)] }

PreviewInit ==
    /\ root \in PreviewRoots
    /\ active = AbsentDir
    /\ slot = AbsentDir
    /\ theme_names = << >>
    /\ theme_types = << >>
    /\ theme_count = 0
    /\ selected_index = 0
    /\ has_backup = FALSE
    /\ menu = [n |-> 0, restore |-> FALSE]
    /\ view = "None"
    /\ pc = "start"
    /\ faults = 0
    /\ cur = "none"
    /\ oplog = << >>
    /\ pre = NoSnapshot
    /\ bk = "none"
    /\ last = [op |-> "none", ok |-> FALSE]
    /\ applyPre = NoApplyPre
    /\ info_model = NoPreview
    /\ info_text = NoText
    /\ heap = EmptyHeap
    /\ plog = << >>
    /\ drawn = NoDraw
    /\ pfile = NoFile
    /\ pout = NoResult
    /\ pstack = << >>

\* the events that reach load_preview and the teardown
PreviewNext ==
    AppStart \/ SubmenuSelect \/ LoadPreviewBody \/ Draw \/ InfoLeft \/ NavBack
    \/ SubmenuBack

PreviewSpec == PreviewInit /\ [][PreviewNext]_vars

\* --------------------------------------------- the size calculator on its own
\* A directory entry as storage_dir_read reports it: a file with its size, or a
\* directory with its entries in listing order; open says whether
\* storage_dir_open succeeds on it.
FileEntry(n) == [isdir |-> FALSE, size |-> n, open |-> FALSE, kids |-> << >>]
DirEntry(o, kids) == [isdir |-> TRUE, size |-> 0, open |-> o, kids |-> kids]

\* levels of subdirectories below the directory get_dir_size is called on
MaxDepth == 2

\* the directories of at most d levels: empty ones, and ones holding a
\* subdirectory between files and a second subdirectory
RECURSIVE DirTrees(_)
DirTrees(d) ==
    IF d = 0
    THEN { DirEntry(TRUE, << >>), DirEntry(FALSE, << FileEntry(8) >>),
           DirEntry(TRUE, << FileEntry(3) >>) }
    ELSE DirTrees(d - 1) \cup
         { DirEntry(o, before \o << k >> \o after) :
              o \in BOOLEAN, k \in DirTrees(d - 1),
              before \in { << >>, << FileEntry(1) >> },
              after \in { << >>, << FileEntry(2) >>,
                          << DirEntry(FALSE, << FileEntry(4) >>) >>,
                          << DirEntry(TRUE, << FileEntry(4), FileEntry(0) >>) >> } }

DirSizeInit ==
    /\ pfile \in DirTrees(MaxDepth)
    /\ pout = NoResult
    /\ pstack = << >>
    /\ root = [ex |-> FALSE, list |-> << >>]
    /\ active = AbsentDir
    /\ slot = AbsentDir
    /\ theme_names = << >>
    /\ theme_types = << >>
    /\ theme_count = 0
    /\ selected_index = 0
    /\ has_backup = FALSE
    /\ menu = [n |-> 0, restore |-> FALSE]
    /\ view = "None"
    /\ pc = "start"
    /\ faults = 0
    /\ cur = "none"
    /\ oplog = << >>
    /\ pre = NoSnapshot
    /\ bk = "none"
    /\ last = [op |-> "none", ok |-> FALSE]
    /\ applyPre = NoApplyPre
    /\ info_model = NoPreview
    /\ info_text = NoText
    /\ heap = EmptyHeap
    /\ plog = << >>
    /\ drawn = NoDraw

DirSizeFrame ==
    UNCHANGED << fsvars, catvars, selected_index, menu, view, pc, faults, histvars,
                 pmvars, plog, drawn, pfile >>

\* a call of get_dir_size on a directory that opens: total = 0, all entries to
\* read (lines 435-446)
NewFrame(dir) == [todo |-> dir.kids, total |-> 0]
Top == pstack[Len(pstack)]
\* the frames with the innermost one replaced
WithTop(f) == [pstack EXCEPT ![Len(pstack)] = f]
\* mutant: the size of a subdirectory is not added
AddChild_Dropped(total, sub) == total
\* line 450: total += get_dir_size(child)
AddChild(total, sub) == total + sub
\* the innermost frame after one entry that added n
Advanced(n) == [todo |-> Tail(Top.todo), total |-> AddChild(Top.total, n)]
DirSizeResult(n) == Returned("get_dir_size", TRUE, n, "", 0, 0)

\* the outermost call, lines 434-441: 0 when the directory does not open
DirSizeCall ==
    /\ pout = NoResult /\ pstack = << >>
    /\ IF pfile.open
       THEN pstack' = << NewFrame(pfile) >> /\ UNCHANGED pout
       ELSE pout' = DirSizeResult(0) /\ UNCHANGED pstack
    /\ DirSizeFrame

\* storage_dir_read gives a file: its size is added (lines 447, 451-453)
DirSizeFile ==
    /\ pstack # << >> /\ Top.todo # << >>
    /\ ~Head(Top.todo).isdir
    /\ pstack' = WithTop([todo |-> Tail(Top.todo),
                          total |-> Top.total + Head(Top.todo).size])
    /\ UNCHANGED pout
    /\ DirSizeFrame

\* storage_dir_read gives a directory that opens: the recursive call starts
\* (lines 449-450, 434-446)
DirSizeEnter ==
    /\ pstack # << >> /\ Top.todo # << >>
    /\ Head(Top.todo).isdir /\ Head(Top.todo).open
    /\ pstack' = Append(pstack, NewFrame(Head(Top.todo)))
    /\ UNCHANGED pout
    /\ DirSizeFrame

\* storage_dir_read gives a directory that does not open: the recursive call
\* returns 0 (lines 449-450, 438-441)
DirSizeSkip ==
    /\ pstack # << >> /\ Top.todo # << >>
    /\ Head(Top.todo).isdir /\ ~Head(Top.todo).open
    /\ pstack' = WithTop(Advanced(0))
    /\ UNCHANGED pout
    /\ DirSizeFrame

\* storage_dir_read gives no more entries: the call returns its total, to the
\* caller's line 450 or to who asked (lines 447, 456-460)
DirSizeReturn ==
    /\ pstack # << >> /\ Top.todo = << >>
    /\ IF Len(pstack) = 1
       THEN pout' = DirSizeResult(Top.total) /\ pstack' = << >>
       ELSE /\ pstack' = [i \in 1..(Len(pstack) - 1) |->
                            IF i < Len(pstack) - 1 THEN pstack[i]
                            ELSE [todo |-> Tail(pstack[i].todo),
                                  total |-> AddChild(pstack[i].total, Top.total)]]
            /\ UNCHANGED pout
    /\ DirSizeFrame

DirSizeNext ==
    DirSizeCall \/ DirSizeFile \/ DirSizeEnter \/ DirSizeSkip \/ DirSizeReturn

\* get_dir_size is a function call: once started it runs on
DirSizeSpec == DirSizeInit /\ [][DirSizeNext]_vars /\ WF_vars(DirSizeNext)

\* ------------------------------------------------- the preview drawn on its own
PREVIEW_DRAW_X == 2
PREVIEW_DRAW_Y == 2
PREVIEW_DRAW_W == 48
PREVIEW_DRAW_H == 32
\* the largest dimensions parse_meta_dimensions accepts (lines 206, 215)
MaxWidth == 128
MaxHeight == 64

\* a value stored in a uint8_t
U8(x) == x % 256

\* the model load_preview installs for a w x h frame (lines 394, 409, 417-421)
Installed(a, w, h) ==
    [frame_data |-> a, frame_size |-> ((w + 7) \div 8) * h, frame_w |-> w,
     frame_h |-> h, preview_loaded |-> TRUE]

\* line 743
SrcRowBytes(src_w) == U8((src_w + 7) \div 8)
\* lines 745-746: a source smaller than the area is centred
DrawOffset(src, room) == IF src < room THEN U8((room - src) \div 2) ELSE 0
\* lines 748-749
DrawExtent(src, room) == IF src < room THEN src ELSE room

\* mutant: the cast is applied to the product, before the division
Scaled_CastFirst(p, src, room) == IF src > room THEN U8(p * src) \div room ELSE p

\* lines 752, 755: the source coordinate of a drawn coordinate; the product and
\* the quotient are ints, the result is cast to uint8_t
Scaled(p, src, room) == IF src > room THEN U8((p * src) \div room) ELSE p

\* line 758: a uint32_t of three uint8_t operands, below 2^13
ByteIdx(sy, row_bytes, sx) == sy * row_bytes + sx \div 8

\* one pass of the inner loop (lines 755-765): the source bit looked at for the
\* pixel (px, py) and the dot it leads to; read is the test of line 759
Sample(m, px, py) ==
    [px |-> px, py |-> py,
     sx |-> Scaled(px, U8(m.frame_w), PREVIEW_DRAW_W),
     sy |-> Scaled(py, U8(m.frame_h), PREVIEW_DRAW_H),
     byte_idx |-> ByteIdx(Scaled(py, U8(m.frame_h), PREVIEW_DRAW_H),
                          SrcRowBytes(U8(m.frame_w)),
                          Scaled(px, U8(m.frame_w), PREVIEW_DRAW_W)),
     read |-> ByteIdx(Scaled(py, U8(m.frame_h), PREVIEW_DRAW_H),
                      SrcRowBytes(U8(m.frame_w)),
                      Scaled(px, U8(m.frame_w), PREVIEW_DRAW_W)) < m.frame_size,
     bit |-> Scaled(px, U8(m.frame_w), PREVIEW_DRAW_W) % 8,
     x |-> PREVIEW_DRAW_X + DrawOffset(U8(m.frame_w), PREVIEW_DRAW_W) + px,
     y |-> PREVIEW_DRAW_Y + DrawOffset(U8(m.frame_h), PREVIEW_DRAW_H) + py]

\* the inner loop of lines 754-767 for the row py
RowSamples(m, py) ==
    {Sample(m, px, py) : px \in 0..(DrawExtent(U8(m.frame_w), PREVIEW_DRAW_W) - 1)}

\* the row the outer loop of line 751 is at: 0, then py++
NextRow(out) == IF out.fn = "info_draw" THEN U8(out.py + 1) ELSE 0

\* an info view showing a preview of every size parse_meta_dimensions accepts
DrawInit ==
    /\ \E w \in 1..MaxWidth, h \in 1..MaxHeight :
          /\ info_model = Installed(1, w, h)
          /\ heap = Malloc(EmptyHeap, 1, ((w + 7) \div 8) * h)
    /\ pfile = NoFile
    /\ pout = NoResult
    /\ pstack = << >>
    /\ root = [ex |-> FALSE, list |-> << >>]
    /\ active = AbsentDir
    /\ slot = AbsentDir
    /\ theme_names = << >>
    /\ theme_types = << >>
    /\ theme_count = 0
    /\ selected_index = 0
    /\ has_backup = FALSE
    /\ menu = [n |-> 0, restore |-> FALSE]
    /\ view = "Info"
    /\ pc = "idle"
    /\ faults = 0
    /\ cur = "none"
    /\ oplog = << >>
    /\ pre = NoSnapshot
    /\ bk = "none"
    /\ last = [op |-> "none", ok |-> FALSE]
    /\ applyPre = NoApplyPre
    /\ info_text = NoText
    /\ plog = << >>
    /\ drawn = NoDraw

\* one pass of the outer loop of info_draw (lines 740, 751-768)
DrawRow ==
    /\ pc = "idle" /\ view = "Info"
    /\ info_model.preview_loaded /\ info_model.frame_data # NULL
    /\ NextRow(pout) < DrawExtent(U8(info_model.frame_h), PREVIEW_DRAW_H)
    /\ pout' = [fn |-> "info_draw", py |-> NextRow(pout),
                samples |-> RowSamples(info_model, NextRow(pout))]
    /\ UNCHANGED << fsvars, catvars, selected_index, menu, view, pc, faults, histvars,
                    pmvars, plog, drawn, pfile, pstack >>

DrawNext == DrawRow

DrawSpec == DrawInit /\ [][DrawNext]_vars

\* ================================================================= claims
\* storage mutations apply issues after backup() has returned
AfterBackupOps == {"mkdir", "merge", "mkdir_sub", "merge_sub", "open", "write"}
LoggedOps == {oplog[i].op : i \in 1..Len(oplog)}
CatalogUnchanged ==
    /\ theme_names = pre.names
    /\ theme_types = pre.types
    /\ theme_count = pre.count

\* C1: apply runs backup before any other storage mutation; when backup fails,
\* apply returns failure and the active directory is as before the call, with no
\* mkdir, merge or manifest write issued.
C1_BackupFirstOrAbort ==
    /\ (cur = "apply" \/ last.op = "apply") =>
          /\ (LoggedOps \cap AfterBackupOps # {} => bk \in {"noop", "ok"})
          /\ \A i, j \in 1..Len(oplog) :
                (oplog[i].op \in AfterBackupOps /\ oplog[j].op \in {"remove", "rename"})
                   => j < i
    /\ bk = "fail" =>
          /\ pc = "idle" /\ view = "Popup"
          /\ last = [op |-> "apply", ok |-> FALSE]
          /\ active = pre.active
          /\ LoggedOps \cap AfterBackupOps = {}

C1_Witness ==
    /\ bk = "fail" /\ last.op = "apply" /\ pre.active.ex
    /\ Len(oplog) > 0 /\ oplog[Len(oplog)].op = "rename"

\* C2: when the active directory exists and backup succeeds, the slot holds exactly
\* the tree the active directory held, nothing of an earlier backup remains, the
\* active path is gone and has_backup is true, for a first and for a later backup.
C2_BackupMovesActive ==
    bk = "ok" =>
        /\ pre.active.ex
        /\ slot = pre.active
        /\ has_backup
        /\ pc = "apply_mkdir" => ~active.ex

C2_Witness ==
    /\ bk = "ok" /\ pc = "apply_mkdir"
    /\ pre.slot.ex /\ pre.slot # pre.active
    /\ slot = pre.active /\ ~active.ex

\* C3: backup with no active directory returns success and changes nothing: slot,
\* has_backup and catalog stay as they were.
C3_BackupNoop ==
    /\ (cur = "apply" /\ ~pre.active.ex) => bk = "noop"
    /\ bk = "noop" =>
          /\ ~pre.active.ex
          /\ pc # "idle" => pc \in {"apply_mkdir", "pack_merge", "single_mkdir",
                                    "single_merge", "single_open", "single_write"}
          /\ slot = pre.slot
          /\ has_backup = pre.has_backup
          /\ CatalogUnchanged
          /\ LoggedOps \cap {"remove", "rename"} = {}

C3_Witness ==
    /\ bk = "noop" /\ pc = "apply_mkdir" /\ oplog = << >>
    /\ pre.slot.ex /\ slot = pre.slot

\* C4: at every point of backup, from its first storage call to its return, the
\* pre-call tree of the active directory is whole at exactly one place: still at
\* the active path, or, the active path being gone, at the slot.
BackupPoint ==
    \/ pc \in {"backup_remove", "backup_rename"}
    \/ (pc = "apply_mkdir" /\ bk = "ok")
    \/ bk = "fail"
C4_BackupNeverSplits ==
    BackupPoint =>
        /\ pre.active.ex
        /\ \/ active = pre.active
           \/ (~active.ex /\ slot = pre.active)

C4_Witness ==
    /\ bk = "fail" /\ pre.slot.ex /\ slot.ex /\ slot # pre.slot
    /\ active = pre.active

\* C5: restore with no backup slot returns failure and changes nothing: active,
\* has_backup and catalog stay as they were, no storage call is issued.
C5_RestoreWithoutBackup ==
    /\ cur = "restore" => pre.slot.ex
    /\ (last.op = "restore" /\ ~pre.slot.ex) =>
          /\ ~last.ok
          /\ view = "Popup"
          /\ active = pre.active
          /\ slot = pre.slot
          /\ root = pre.root
          /\ has_backup = pre.has_backup
          /\ CatalogUnchanged
          /\ oplog = << >>

C5_Witness ==
    /\ last = [op |-> "restore", ok |-> FALSE]
    /\ ~pre.slot.ex /\ pre.active.ex /\ active = pre.active

\* C6: after a successful restore the active directory holds exactly the slot's
\* tree, its previous content is kept nowhere, the slot is gone, has_backup is
\* false, and a restore started from that state fails.
C6_RestoreMovesSlot ==
    (last.op = "restore" /\ last.ok) =>
        /\ pre.slot.ex
        /\ active = pre.slot
        /\ ~slot.ex
        /\ ~has_backup
        /\ RestoreEntry(active, slot) = "fail"

C6_Witness ==
    /\ last = [op |-> "restore", ok |-> TRUE]
    /\ pre.active.ex /\ pre.active # pre.slot
    /\ active = pre.slot /\ ~slot.ex

\* C7 as stated: for every starting state, after a successful apply the slot holds
\* what the active directory held before it, and a following restore leaves the
\* active directory with its pre-apply content.
C7_Original ==
    /\ (last.op = "apply" /\ last.ok) => slot = pre.active
    /\ (last.op = "restore" /\ last.ok /\ applyPre.valid) => active = applyPre.dir

\* C7 amended: when the active directory exists before a successful apply, the
\* slot afterwards holds exactly its pre-apply tree, and a following successful
\* restore leaves the active directory with exactly that tree.
C7_SingleStepRestore ==
    /\ (last.op = "apply" /\ last.ok /\ pre.active.ex) => slot = pre.active
    /\ (last.op = "restore" /\ last.ok /\ applyPre.valid /\ applyPre.dir.ex)
          => active = applyPre.dir

C7_Witness ==
    /\ last = [op |-> "restore", ok |-> TRUE]
    /\ applyPre.valid /\ applyPre.dir.ex
    /\ active = applyPre.dir /\ pre.active # applyPre.dir

\* the state right after a successful apply of the selected theme
ApplyOkPack ==
    /\ last = [op |-> "apply", ok |-> TRUE]
    /\ SelType \in {ThemeTypePack, ThemeTypeAnimsPack}
ApplyOkSingle ==
    /\ last = [op |-> "apply", ok |-> TRUE]
    /\ SelType = ThemeTypeSingle
\* the source tree of the selected theme: its root, or its Anims subdirectory
C8_Source ==
    IF SelType = ThemeTypeAnimsPack
    THEN {<<Tail(e[1]), e[2]>> :
             e \in {x \in RootFiles(root, SelName) :
                       Len(x[1]) > 1 /\ x[1][1] = "Anims"}}
    ELSE RootFiles(root, SelName)

\* C8 as stated: after a successful apply of a Pack or AnimsPack every source file
\* is at the same relative path in the active directory, and every file the active
\* directory held before and the source lacks is still in the active directory.
C8_Original ==
    ApplyOkPack =>
        /\ C8_Source \subseteq active.files
        /\ \A e \in pre.active.files :
              ~HasFile(C8_Source, e[1]) => e \in active.files

\* C8 amended: after a successful apply of a Pack or AnimsPack every source file
\* is at the same relative path in the active directory, and every file the active
\* directory held before the apply is, untouched, in the backup slot.
C8_MergedAndBackedUp ==
    ApplyOkPack =>
        /\ active.ex
        /\ C8_Source \subseteq active.files
        /\ pre.active.ex => (slot.ex /\ pre.active.files \subseteq slot.files)

C8_Witness ==
    /\ ApplyOkPack /\ SelType = ThemeTypeAnimsPack
    /\ C8_Source # {} /\ C8_Source \subseteq active.files
    /\ \E e \in pre.active.files :
          ~HasFile(C8_Source, e[1]) /\ e \in slot.files /\ e \notin active.files

\* the manifest at the root of the active directory
ActiveManifest == FileData(active.files, <<MANIFEST_FILENAME>>)
\* a line-initial "Name:" entry of the text whose value is n
NameEntryAt(t, i, n) ==
    /\ t[i] = "Name:" /\ (i = 1 \/ t[i-1] = NL)
    /\ i + 3 <= Len(t)
    /\ SubSeq(t, i, i + 3) = <<"Name:", " ", n, NL>>

\* C9: after a successful apply of a Single theme n the active directory holds the
\* theme's files under n/ and a manifest with the header and exactly one
\* line-initial Name: entry, of value n; when the merge fails apply fails and no
\* manifest is written.
C9_SingleManifest ==
    /\ ApplyOkSingle =>
          /\ UnderDir(SelName, RootFiles(root, SelName)) \subseteq active.files
          /\ HasFile(active.files, <<MANIFEST_FILENAME>>)
          /\ ParseManifest(active.files, <<MANIFEST_FILENAME>>)
                = [valid |-> TRUE, count |-> 1]
          /\ \E i \in 1..Len(ActiveManifest) : NameEntryAt(ActiveManifest, i, SelName)
    /\ (\E i \in 1..Len(oplog) : oplog[i].op = "merge_sub" /\ ~oplog[i].ok) =>
          /\ pc = "idle"
          /\ last = [op |-> "apply", ok |-> FALSE]
          /\ LoggedOps \cap {"open", "write"} = {}
          /\ ~HasFile(active.files, <<MANIFEST_FILENAME>>)

C9_Witness ==
    /\ ApplyOkSingle
    /\ HasFile(pre.active.files, <<MANIFEST_FILENAME>>)
    /\ HasFile(active.files, <<SelName, META_FILENAME>>)
    /\ ActiveManifest # FileData(pre.active.files, <<MANIFEST_FILENAME>>)
    /\ CountNames(ActiveManifest) = 1

\* the place of each storage step in an apply
StepRank(op) ==
    CASE op = "remove" -> 1
      [] op = "rename" -> 2
      [] op = "mkdir" -> 3
      [] op \in {"merge", "mkdir_sub"} -> 4
      [] op = "merge_sub" -> 5
      [] op = "open" -> 6
      [] op = "write" -> 7
\* an engine operation (apply, restore) is between two of its storage calls
Running == pc \notin {"start", "idle", "exited", "reset", "load_preview"}

\* C10: the storage steps of an apply occur in the order backup, creation of the
\* active directory, merge, manifest write, each after the previous one returned,
\* and every step issued belongs to the one operation in flight.
C10_ApplySequential ==
    /\ Running <=> cur # "none"
    /\ Running => (cur = "apply" <=> view = "Loading")
    /\ \A i \in 1..Len(oplog) :
          oplog[i].by = (IF cur # "none" THEN cur ELSE last.op)
    /\ (cur = "apply" \/ last.op = "apply") =>
          /\ \A i, j \in 1..Len(oplog) :
                i < j => StepRank(oplog[i].op) < StepRank(oplog[j].op)
          /\ LoggedOps \cap {"merge", "mkdir_sub", "merge_sub", "open", "write"} # {}
                => "mkdir" \in LoggedOps
          /\ "mkdir" \in LoggedOps => bk \in {"noop", "ok"}
          /\ "merge_sub" \in LoggedOps => "mkdir_sub" \in LoggedOps
          /\ "open" \in LoggedOps => [op |-> "merge_sub", by |-> "apply", ok |-> TRUE]
                                        \in {oplog[i] : i \in 1..Len(oplog)}
          /\ "write" \in LoggedOps => [op |-> "open", by |-> "apply", ok |-> TRUE]
                                        \in {oplog[i] : i \in 1..Len(oplog)}

C10_Witness ==
    /\ last = [op |-> "apply", ok |-> TRUE]
    /\ [i \in 1..Len(oplog) |-> oplog[i].op]
          = <<"remove", "rename", "mkdir", "mkdir_sub", "merge_sub", "open", "write">>

\* a listing entry that carries one of the three marker files
Qualifies(e) ==
    /\ e.isdir
    /\ \/ HasFile(e.files, <<"manifest.txt">>)
       \/ HasFile(e.files, <<"Anims", "manifest.txt">>)
       \/ HasFile(e.files, <<"meta.txt">>)
\* the qualifying entries of animation_packs/, in listing order
Qualifying == SelectSeq(root.list, Qualifies)
JustScanned == last.op = "scan" /\ pc = "idle"

\* C11: the catalog never holds more than MAX_THEMES = 64 entries; when more
\* qualifying directories exist the scan keeps the first 64 of them, writes no
\* catalog slot beyond the 64th and reports no error.
C11_CatalogCapped ==
    /\ theme_count <= 64
    /\ DOMAIN theme_names \subseteq 1..64
    /\ DOMAIN theme_types \subseteq 1..64
    /\ Len(theme_names) = theme_count
    /\ Len(theme_types) = theme_count
    /\ menu.n <= 64
    /\ (JustScanned /\ Len(Qualifying) > 64) =>
          /\ theme_count = 64
          /\ \A i \in 1..64 : theme_names[i] = Qualifying[i].name
          /\ view = "Submenu"

C11_Witness ==
    /\ JustScanned
    /\ Len(Qualifying) > 64
    /\ theme_count = 64
    /\ theme_names[64] = "D64"

\* C12: every catalog entry stands for one subdirectory and has exactly one type,
\* Pack if the directory holds manifest.txt, else AnimsPack if it holds
\* Anims/manifest.txt, else Single if it holds meta.txt; unmarked directories and
\* plain files give no entry and the directories after them are still scanned.
C12_FirstMatchType ==
    JustScanned =>
        /\ (Len(Qualifying) <= 64 => theme_count = Len(Qualifying))
        /\ \A i \in 1..theme_count :
              LET fs == Qualifying[i].files IN
              /\ theme_names[i] = Qualifying[i].name
              /\ theme_types[i] \in {"Pack", "AnimsPack", "Single"}
              /\ theme_types[i] = "Pack" <=> HasFile(fs, <<"manifest.txt">>)
              /\ theme_types[i] = "AnimsPack" <=>
                    (~HasFile(fs, <<"manifest.txt">>)
                       /\ HasFile(fs, <<"Anims", "manifest.txt">>))
              /\ theme_types[i] = "Single" <=>
                    (~HasFile(fs, <<"manifest.txt">>)
                       /\ ~HasFile(fs, <<"Anims", "manifest.txt">>)
                       /\ HasFile(fs, <<"meta.txt">>))

C12_Witness ==
    /\ JustScanned
    /\ Len(root.list) = 5
    /\ ~Qualifies(root.list[1]) /\ root.list[1].isdir
    /\ ~root.list[3].isdir
    /\ theme_count = 3
    /\ theme_names = <<"all", "am", "s">>
    /\ theme_types = <<"Pack", "AnimsPack", "Single">>
    /\ HasFile(root.list[2].files, <<"meta.txt">>)
    /\ HasFile(root.list[2].files, <<"Anims", "manifest.txt">>)

\* C13: a scan that finds animation_packs/ missing leaves the catalog empty, a
\* catalog that held entries before included, raises no error view, and still
\* sets has_backup to the existence of dolphin_backup/.
C13_MissingRoot ==
    (JustScanned /\ ~root.ex) =>
        /\ theme_count = 0
        /\ theme_names = << >>
        /\ theme_types = << >>
        /\ menu.n = 0
        /\ has_backup = slot.ex
        /\ menu.restore = slot.ex
        /\ view = "Submenu"

C13_Witness ==
    /\ JustScanned /\ ~root.ex
    /\ pre.count > 0 /\ theme_count = 0
    /\ ~pre.has_backup /\ slot.ex /\ has_backup

\* C14: whenever no engine operation is executing, has_backup equals the
\* existence of dolphin_backup/, runs with a failing storage call included.
C14_FlagMirrorsSlot ==
    pc = "idle" => has_backup = slot.ex

\* a successful apply, restore or delete is the last thing that happened
Mutated == last.ok /\ last.op \in {"apply", "restore", "delete"}
\* the catalog and the menu are what a scan of the volume and a repopulation give
Rebuilt(r, s, names, types, count, hb, m) ==
    LET c == ScanThemes(r, s) IN
    /\ names = c.names
    /\ types = c.types
    /\ count = c.count
    /\ hb = c.has_backup
    /\ m = PopulateSubmenu(c.count, c.has_backup)

\* C15: every step that brings the list back on screen after a successful apply,
\* restore or delete shows a catalog and a menu rebuilt from the volume as that
\* operation left it.
C15_RebuiltBeforeList ==
    [][(Mutated /\ view # "Submenu" /\ view' = "Submenu")
          => Rebuilt(root', slot', theme_names', theme_types', theme_count',
                     has_backup', menu')]_vars

\* the places of the "Name:" lexemes that open a line of the text
LineInitialNames(t) ==
    {i \in DOMAIN t : t[i] = "Name:" /\ (i = 1 \/ t[i - 1] = "\n")}
HeaderIn(t) == \E i \in DOMAIN t : t[i] = "Filetype: Flipper Animation Manifest"

\* C16: parse_manifest returns valid exactly when the file opens and the header
\* occurs somewhere in it; the count is then the number of "Name:" at the start of
\* the content or right after a newline, and 0 whenever the result is not valid.
C16_ValidateAndCount ==
    pout.fn = "parse_manifest" =>
        /\ pout.ret = (pfile.ex /\ HeaderIn(pfile.data))
        /\ pout.ret => pout.count = Cardinality(LineInitialNames(pfile.data))
        /\ ~pout.ret => pout.count = 0

C16_Witness ==
    /\ pout.fn = "parse_manifest" /\ pout.ret /\ pout.count = 1
    /\ pfile.data = << "Name:", "A", "Name:", "Filetype: Flipper Animation Manifest" >>

\* the characters of the string s up to its last one that is not white space
TrimRight(s) ==
    SubSeq(s, 1, CHOOSE k \in 0..Len(s) :
                     /\ k = 0 \/ SubSeq(s, k, k) \notin {" ", "\t", "\r", "\n"}
                     /\ \A j \in (k + 1)..Len(s) :
                           SubSeq(s, j, j) \in {" ", "\t", "\r", "\n"})
\* the first cap characters of the string s
Capped(s, cap) == SubSeq(s, 1, IF Len(s) < cap THEN Len(s) ELSE cap)
\* the value of the "Name:" at place n of the text t: the spaces after it skipped,
\* then the characters up to the line end
ValueAt(t, n) ==
    LET rest == SubSeq(t, n + 1, Len(t))
        val == SubSeq(rest, LeadingRun(rest, {" "}) + 1, Len(rest))
    IN  Join(SubSeq(val, 1, LeadingRun(val, Lexemes(val) \ {"\n", "\r"})))
\* the first place of a set of places
Least(S) == CHOOSE i \in S : \A j \in S : i <= j

\* C17: get_first_anim_name returns the value of the first line-initial "Name:",
\* the spaces after the token skipped, cut at the line end or at 63 characters,
\* trailing white space trimmed; a "Name:" inside an earlier line is not taken.
C17_FirstLineInitialName ==
    (pout.fn = "get_first_anim_name" /\ LineInitialNames(pfile.data) # {}) =>
        LET want == TrimRight(Capped(ValueAt(pfile.data,
                                             Least(LineInitialNames(pfile.data))), 63))
        IN  /\ pout.ret = (want # "")
            /\ pout.ret => pout.name = want

\* the integer a run of lexemes spells, none when it spells no integer
SpelledBy(num) ==
    LET body == IF num # << >> /\ num[1] = "+" THEN Tail(num) ELSE num
        run == SubSeq(body, 1, LeadingRun(body, Digits \cup {"-"}))
    IN  {v \in -999..999 : ToString(v) = Join(run)}
\* the lexemes after the first key of the text, white space skipped
AfterKey(t, key) ==
    LET rest == SubSeq(t, FirstIndex(t, key) + 1, Len(t))
    IN  SubSeq(rest, LeadingRun(rest, Whitespace) + 1, Len(rest))
\* the first key of the text is followed by an integer between 1 and max
GoodDimension(t, key, max) ==
    /\ \E i \in DOMAIN t : t[i] = key
    /\ \E v \in SpelledBy(AfterKey(t, key)) : 0 < v /\ v <= max

SelDir == RootFiles(root, SelName)
SelManifest ==
    IF SelType = ThemeTypePack THEN << "manifest.txt" >> ELSE << "Anims", "manifest.txt" >>
\* the first sub-animation name of a manifest text, "" when it has none
FirstName(t) ==
    IF LineInitialNames(t) = {} THEN ""
    ELSE TrimRight(Capped(ValueAt(t, Least(LineInitialNames(t))), 63))
NameUnresolved ==
    /\ SelType # ThemeTypeSingle
    /\ \/ ~HasFile(SelDir, SelManifest)
       \/ FirstName(FileData(SelDir, SelManifest)) = ""
\* the directory of the first sub-animation inside the theme directory
SelAnimDir ==
    IF SelType = ThemeTypeSingle THEN << >>
    ELSE IF SelType = ThemeTypePack THEN << FirstName(FileData(SelDir, SelManifest)) >>
    ELSE << "Anims", FirstName(FileData(SelDir, SelManifest)) >>
MetaBad ==
    \/ ~HasFile(SelDir, SelAnimDir \o << "meta.txt" >>)
    \/ ~GoodDimension(FileData(SelDir, SelAnimDir \o << "meta.txt" >>), "Width:", 128)
    \/ ~GoodDimension(FileData(SelDir, SelAnimDir \o << "meta.txt" >>), "Height:", 64)
FrameBad ==
    \/ ~HasFile(SelDir, SelAnimDir \o << "frame_0.bm" >>)
    \/ Len(FileData(SelDir, SelAnimDir \o << "frame_0.bm" >>)) = 0
    \/ Len(FileData(SelDir, SelAnimDir \o << "frame_0.bm" >>)) > 2048
InPlog(tag) == \E i \in DOMAIN plog : plog[i] = tag
\* one of the cases in which load_preview is to end without a preview
NoPreviewCase ==
    \/ NameUnresolved
    \/ ~NameUnresolved /\ (MetaBad \/ FrameBad)
    \/ InPlog("open_failed") \/ InPlog("read_short") \/ InPlog("decode_null")

\* C19: when the first sub-animation name cannot be resolved, the meta file is
\* absent or malformed, the frame file cannot be opened or fully read, its size
\* is zero or above 2048 bytes, or decompression fails, load_preview ends with
\* no preview installed (not loaded, no buffer, width = height = 0), also after
\* a preview of another theme had been shown, and without a fault.
C19_NoPreviewOnFailure ==
    (pc = "idle" /\ InPlog("load_preview") /\ NoPreviewCase) =>
        /\ info_model = NoPreview
        /\ heap.fault = "none"

\* the number of bytes of a row of w pixels
RowBytes(w) == CHOOSE k \in 0..w : 8 * k >= w /\ 8 * k < w + 8

\* C20: every preview buffer allocated is released exactly once: no free of a
\* block that is not allocated, no block left at teardown, the buffer held
\* before is released before a new one is installed; the installed buffer has
\* ceil(width/8) * height bytes; frame_data never names a released buffer.
C20_BufferLifecycle ==
    /\ heap.fault = "none"
    /\ \A b \in heap.live : b.addr = info_model.frame_data
    /\ info_model.frame_data \notin heap.freed
    /\ info_model.frame_data # 0 =>
          \E b \in heap.live :
              /\ b.addr = info_model.frame_data
              /\ b.size = RowBytes(info_model.frame_w) * info_model.frame_h
              /\ b.size = info_model.frame_size
    /\ pc = "load_preview" => heap.live = {} /\ info_model.frame_data = 0
    /\ pc = "exited" => heap.live = {} /\ info_model.frame_data = 0

C20_Witness ==
    /\ pc = "exited"
    /\ heap.live = {}
    /\ Cardinality(heap.freed) >= 2

\* the theme shown is a Pack or an AnimsPack whose manifest is missing or lacks
\* the header
ManifestInvalid ==
    /\ SelType # ThemeTypeSingle
    /\ \/ ~HasFile(SelDir, SelManifest)
       \/ ~HeaderIn(FileData(SelDir, SelManifest))

\* C21: show_info of a Pack or AnimsPack whose manifest is invalid ends with an
\* animation count of 0 and no preview in the info view, and leaves the catalog
\* and the directories of all themes as they were.
C21_InvalidManifestDegrades ==
    [][(pc = "load_preview" /\ ManifestInvalid) =>
          /\ info_text'.anim_count = 0
          /\ info_model' = NoPreview
          /\ UNCHANGED << fsvars, catvars >>]_vars

\* the entries of a root other than the one named n, in listing order
OtherThemes(r, n) == SelectSeq(r.list, LAMBDA e : e.name # n)

\* C22: a delete leaves the active directory, the backup slot and the directory
\* of every other theme as they were; when it succeeds the selected theme's
\* directory is gone and the catalog and the list are those of a scan of the new
\* volume; when it fails, or the index is not below theme_count, the catalog is
\* the one from before.
C22_DeleteOnlySelected ==
    last.op = "delete" =>
        /\ active = pre.active /\ slot = pre.slot
        /\ selected_index >= pre.count => ~last.ok /\ root = pre.root
        /\ selected_index < pre.count =>
              /\ root.ex = pre.root.ex
              /\ OtherThemes(root, pre.names[selected_index + 1])
                    = OtherThemes(pre.root, pre.names[selected_index + 1])
              /\ last.ok => \A i \in 1..Len(root.list) :
                               root.list[i].name # pre.names[selected_index + 1]
        /\ last.ok =>
              /\ theme_names = ScanThemes(root, slot).names
              /\ theme_types = ScanThemes(root, slot).types
              /\ theme_count = ScanThemes(root, slot).count
              /\ has_backup = ScanThemes(root, slot).has_backup
              /\ menu = PopulateSubmenu(theme_count, has_backup)
        /\ ~last.ok =>
              /\ theme_names = pre.names /\ theme_types = pre.types
              /\ theme_count = pre.count /\ has_backup = pre.has_backup

C22_Witness ==
    /\ last.op = "delete" /\ last.ok /\ view = "Popup"
    /\ pre.count = 3 /\ theme_count = 2
    /\ Len(root.list) = 2

\* the sizes of all files below a directory entry, at every depth; nothing for a
\* directory that does not open
RECURSIVE SizeBelow(_)
SizeBelow(e) ==
    IF ~e.isdir THEN e.size
    ELSE IF ~e.open \/ e.kids = << >> THEN 0
    ELSE SizeBelow(Head(e.kids)) + SizeBelow([e EXCEPT !.kids = Tail(@)])

AllStepsOk == \A i \in 1..Len(oplog) : oplog[i].ok
\* the active directory holds the selected Single theme's files under its name
\* and, besides them, only a manifest at its root
OnlySingleContent ==
    \E m \in active.files :
        /\ m[1] = << "manifest.txt" >>
        /\ active.files \ {m} =
              { << << SelName >> \o e[1], e[2] >> : e \in RootFiles(root, SelName) }

\* C24: after a successful apply all of whose storage calls succeeded, the active
\* directory holds exactly the applied theme's content (the source tree, for a
\* Single the theme's files under its name plus the manifest), and what it held
\* before is, whole, the content of the backup slot.
C24_ActiveIsExactlyTheme ==
    (last = [op |-> "apply", ok |-> TRUE] /\ AllStepsOk) =>
        /\ active.ex
        /\ SelType # ThemeTypeSingle => active.files = C8_Source
        /\ SelType = ThemeTypeSingle => OnlySingleContent
        /\ pre.active.ex => slot = pre.active

C24_Witness ==
    /\ last = [op |-> "apply", ok |-> TRUE] /\ AllStepsOk
    /\ SelType = ThemeTypePack
    /\ pre.active.ex /\ pre.active.files # {} /\ pre.slot.ex
    /\ pre.active.files \cap active.files = {}
    /\ slot = pre.active

\* C25: whenever the theme list is on screen and no handler is running, the
\* list has the restore item exactly when the backup slot exists.
C25_RestoreItemMirrorsSlot ==
    (view = "Submenu" /\ pc = "idle") => menu.restore = slot.ex

\* the label the info view shows for a type
LabelOf(type) ==
    CASE type = "Pack" -> "Type: Pack"
      [] type = "AnimsPack" -> "Type: Anim Pack"
      [] type = "Single" -> "Type: Single"
\* the info view or one of its two confirmations is on screen, or the apply
\* confirmed there is running
ThemeShown(v, c) == v \in {"Info", "Confirm", "DeleteConfirm"} \/ c = "apply"

\* C26: every step that ends with the info view, the apply confirmation or the
\* delete confirmation on screen, or inside a confirmed apply, leaves the catalog
\* as it was and ends with selected_index below theme_count and naming the theme
\* whose name and type the info view displays.
C26_ActsOnShownTheme ==
    [][ThemeShown(view', cur') =>
          /\ UNCHANGED << theme_names, theme_types, theme_count >>
          /\ selected_index' < theme_count'
          /\ theme_names'[selected_index' + 1] = info_text'.name
          /\ LabelOf(theme_types'[selected_index' + 1]) = info_text'.type_label]_vars

C26_Witness ==
    /\ view = "DeleteConfirm" /\ pc = "idle"
    /\ theme_count = 2 /\ selected_index = 1
    /\ info_text.name = "T3" /\ theme_names = << "T1", "T3" >>

\* the places of a tag in the record of the last load_preview
PlogAt(tags) == {i \in DOMAIN plog : plog[i] \in tags}

\* C27: in load_preview the raw frame buffer is released only after the decoded
\* bitmap has been copied: no free(raw) comes before the copy from the decoder's
\* output pointer.
C27_RawHeldUntilCopy ==
    \A i \in PlogAt({"free_raw"}) :
        \A j \in PlogAt({"copy_from_raw", "copy_from_decoder"}) : j < i

\* the block frame_data points to, as the draw found the heap
DrawnBlock == [addr |-> drawn.model.frame_data, size |-> drawn.model.frame_size]

\* C28: whenever info_draw runs, also between the two locked sections of
\* load_preview, the model it reads is consistent: preview_loaded implies that
\* frame_data is a live buffer of frame_size = ceil(frame_w/8) * frame_h bytes
\* with frame_w, frame_h > 0, and a non-NULL frame_data never points to a
\* released buffer.
C28_DrawSeesConsistentModel ==
    drawn.at # "none" =>
        /\ drawn.model.preview_loaded =>
              /\ drawn.model.frame_w > 0 /\ drawn.model.frame_h > 0
              /\ drawn.model.frame_size
                    = RowBytes(drawn.model.frame_w) * drawn.model.frame_h
              /\ DrawnBlock \in drawn.blocks
        /\ drawn.model.frame_data # NULL =>
              \E b \in drawn.blocks : b.addr = drawn.model.frame_data

\* a draw fell between the reset that released a shown preview and the install of
\* the next one, which has completed since
C28_Witness ==
    /\ drawn.at = "load_preview" /\ drawn.model = NoPreview
    /\ pc = "idle" /\ info_model.preview_loaded /\ heap.freed # {}

\* C29: for every preview of 1..128 by 1..64 and every pixel (px, py) drawn, the
\* dot lies in the 48x32 preview area, the sampled source coordinates are
\* sx < width and sy < height and are the unwrapped px*width/48 and py*height/32
\* (or px, py when the source is not larger), the byte index is
\* sy * ceil(width/8) + sx/8 < ceil(width/8) * height, so the byte is read, and
\* the bit tested is sx mod 8.
C29_SamplesInBounds ==
    pout.fn = "info_draw" =>
        \E w \in {info_model.frame_w}, h \in {info_model.frame_h} :
        \E rb \in {RowBytes(w)} :
            /\ w \in 1..128 /\ h \in 1..64
            /\ pout.py < 32 /\ pout.py < h
            /\ {s.px : s \in pout.samples} = 0..((IF w < 48 THEN w ELSE 48) - 1)
            /\ \A s \in pout.samples :
                  /\ s.py = pout.py
                  /\ s.x \in 2..49 /\ s.y \in 2..33
                  /\ s.sx = (IF w > 48 THEN (s.px * w) \div 48 ELSE s.px)
                  /\ s.sy = (IF h > 32 THEN (s.py * h) \div 32 ELSE s.py)
                  /\ s.sx < w /\ s.sy < h
                  /\ s.byte_idx = s.sy * rb + s.sx \div 8
                  /\ s.byte_idx < rb * h
                  /\ s.read
                  /\ s.bit = s.sx % 8

\* the last row of the largest preview, scaled down: its last pixel samples
\* column 125 of row 62
C29_Witness ==
    /\ pout.fn = "info_draw" /\ pout.py = 31
    /\ info_model.frame_w = 128 /\ info_model.frame_h = 64
    /\ \E s \in pout.samples : s.px = 47 /\ s.sx = 125 /\ s.sy = 62 /\ s.byte_idx = 1007

\* C30: a confirmed apply never rests in the Loading view: while it is shown the
\* handler is running, the view that replaces it is the reboot dialog when the
\* apply succeeded and the error popup when it failed, one of the two is
\* eventually shown, and from a popup the theme list is eventually shown again.
C30_ApplyLeavesLoading ==
    /\ [](view = "Loading" => pc # "idle" /\ cur = "apply")
    /\ [][(view = "Loading" /\ view' # "Loading") =>
              /\ last'.op = "apply"
              /\ view' = (IF last'.ok THEN "Reboot" ELSE "Popup")]_vars
    /\ (view = "Loading") ~> (view \in {"Reboot", "Popup"})
    /\ (view = "Popup") ~> (view = "Submenu")

\* an apply that went through the Loading view, failed at a storage call and
\* ended in the error popup
C30_Witness ==
    /\ view = "Popup" /\ pc = "idle"
    /\ last = [op |-> "apply", ok |-> FALSE]
    /\ oplog # << >> /\ ~AllStepsOk

\* C31: restore never loses the backup on failure: when the backup slot existed
\* and restore returned failure (the removal of the active directory or the
\* rename failed), the slot still holds the backup tree as it was and has_backup
\* is still true, whatever became of the active directory.
C31_FailedRestoreKeepsBackup ==
    (pc = "idle" /\ last = [op |-> "restore", ok |-> FALSE] /\ pre.slot.ex) =>
        /\ slot = pre.slot
        /\ has_backup /\ pre.has_backup

\* a restore that removed the active directory and then failed at the rename
C31_Witness ==
    /\ pc = "idle" /\ last = [op |-> "restore", ok |-> FALSE]
    /\ pre.slot.ex /\ pre.active.ex /\ ~active.ex
    /\ Len(oplog) = 2 /\ oplog[1].ok /\ ~oplog[2].ok

====
